---- MODULE Spec2Model ----
(***************************************************************************)
(* Write-behind cache persistence engine (redis/cache.rs): the producer    *)
(* API, the command channel, the write worker, the collection dispatcher   *)
(* and the store the pipelines are applied to.                             *)
(*                                                                         *)
(* A key is a sequence of tokens: the delimiter token ":" or a name that   *)
(* holds no delimiter, so "orders:O-1" is <<"orders", ":", "O-1">>.        *)
(* An Option is a sequence of length 0 (None) or 1 (Some).                 *)
(***************************************************************************)
EXTENDS Integers, Sequences, FiniteSets, TLC

VARIABLES
    trader_key,       \* RedisCacheDatabase.trader_key
    buffer_interval,  \* config.buffer_interval_ms (in clock ticks)
    engine,           \* position of the owner: open, closing, closed, dropped
    queue,            \* the unbounded channel tx -> rx
    pc,               \* position of process_commands
    buffer,           \* process_commands: buffer
    elapsed,          \* process_commands: last_drain.elapsed(), in clock ticks
    store,            \* the remote key-value store
    calls,            \* history: every insert/update/delete call with its result
    submitted,        \* history: every pipeline handed to query_async
    applied,          \* history: the store commands that changed the store
    errors,           \* history: the errors drain_buffer logged (a command id, or
                      \* TransportError(n) for the n-th pipeline)
    returned          \* history: what the last read or adapter call returned

vars == <<trader_key, buffer_interval, engine, queue, pc, buffer, elapsed, store,
          calls, submitted, applied, errors, returned>>

----------------------------------------------------------------------------
(* Bounds of the model *)

MaxCalls == 2
MaxInterval == 1

----------------------------------------------------------------------------
(* Constants of cache.rs *)

REDIS_DELIMITER == ":"
FAILED_TX_CHANNEL == "Failed to send to channel"

INDEX == <<"index">>
GENERAL == <<"general">>
CURRENCIES == <<"currencies">>
INSTRUMENTS == <<"instruments">>
SYNTHETICS == <<"synthetics">>
ACCOUNTS == <<"accounts">>
ORDERS == <<"orders">>
POSITIONS == <<"positions">>
ACTORS == <<"actors">>
STRATEGIES == <<"strategies">>
SNAPSHOTS == <<"snapshots">>
HEALTH == <<"health">>

INDEX_ORDER_IDS == <<"index", ":", "order_ids">>
INDEX_ORDER_POSITION == <<"index", ":", "order_position">>
INDEX_ORDER_CLIENT == <<"index", ":", "order_client">>
INDEX_ORDERS == <<"index", ":", "orders">>
INDEX_ORDERS_OPEN == <<"index", ":", "orders_open">>
INDEX_ORDERS_CLOSED == <<"index", ":", "orders_closed">>
INDEX_ORDERS_EMULATED == <<"index", ":", "orders_emulated">>
INDEX_ORDERS_INFLIGHT == <<"index", ":", "orders_inflight">>
INDEX_POSITIONS == <<"index", ":", "positions">>
INDEX_POSITIONS_OPEN == <<"index", ":", "positions_open">>
INDEX_POSITIONS_CLOSED == <<"index", ":", "positions_closed">>

----------------------------------------------------------------------------
(* Option and Result values *)

None == <<>>
Some(x) == <<x>>
IsSome(o) == Len(o) = 1
Unwrap(o) == o[1]

Ok(v) == [ok |-> TRUE, v |-> v]
Err(e) == [ok |-> FALSE, v |-> e]

----------------------------------------------------------------------------
(* Key codec *)

\* str::split_once(REDIS_DELIMITER): position of the first delimiter, 0 when absent
RECURSIVE FindDelimiter(_, _)
FindDelimiter(key, i) ==
    IF i > Len(key) THEN 0
    ELSE IF key[i] = REDIS_DELIMITER THEN i
    ELSE FindDelimiter(key, i + 1)

get_collection_key(key) ==
    LET d == FindDelimiter(key, 1)
    IN  IF d = 0 THEN Err("InvalidKey") ELSE Ok(SubSeq(key, 1, d - 1))

\* Mutant of get_index_key: the key is split at its last delimiter
get_index_key_rsplit(key) ==
    LET ds == {i \in 1..Len(key) : key[i] = REDIS_DELIMITER}
    IN  IF ds = {} THEN Err("InvalidKey")
        ELSE Ok(SubSeq(key, (CHOOSE d \in ds : \A e \in ds : e <= d) + 1, Len(key)))

get_index_key(key) ==
    LET d == FindDelimiter(key, 1)
    IN  IF d = 0 THEN Err("InvalidKey") ELSE Ok(SubSeq(key, d + 1, Len(key)))

\* Mutant of get_trader_key: the prefix is pushed whatever the configuration
get_trader_key_always_prefixed(trader_id, instance_id, use_trader_prefix, use_instance_id) ==
    <<"trader-", trader_id>>
        \o (IF use_instance_id THEN <<REDIS_DELIMITER, instance_id>> ELSE <<>>)

get_trader_key(trader_id, instance_id, use_trader_prefix, use_instance_id) ==
    (IF use_trader_prefix THEN <<"trader-">> ELSE <<>>)
        \o <<trader_id>>
        \o (IF use_instance_id THEN <<REDIS_DELIMITER, instance_id>> ELSE <<>>)

\* format!("{trader_key}{REDIS_DELIMITER}{key}")
FullKey(tk, key) == tk \o <<REDIS_DELIMITER>> \o key

----------------------------------------------------------------------------
(* Commands *)

\* DatabaseCommand::new; id is the position of the call in `calls`
NewCommand(op_type, key, payload, id) ==
    [op_type |-> op_type, key |-> Some(key), payload |-> payload, id |-> id]

\* DatabaseCommand::close
CloseCommand == [op_type |-> "Close", key |-> None, payload |-> None, id |-> 0]

----------------------------------------------------------------------------
(* Collection dispatcher: each builder returns the extended pipeline and    *)
(* "Ok", "Err" (anyhow error, logged by drain_buffer) or "Panic".           *)

PipeCmd(prim, key, args, id) == [prim |-> prim, key |-> key, args |-> args, id |-> id]

Built(pipe, res) == [pipe |-> pipe, res |-> res]

insert_string(pipe, key, value, id) == Append(pipe, PipeCmd("SET", key, <<value>>, id))
insert_set(pipe, key, value, id) == Append(pipe, PipeCmd("SADD", key, <<value>>, id))
insert_hset(pipe, key, name, value, id) == Append(pipe, PipeCmd("HSET", key, <<name, value>>, id))
insert_list(pipe, key, value, id) == Append(pipe, PipeCmd("RPUSH", key, <<value>>, id))
\* Mutant of update_list: the value is pushed whether or not the list exists
update_list_rpush(pipe, key, value, id) == Append(pipe, PipeCmd("RPUSH", key, <<value>>, id))
update_list(pipe, key, value, id) == Append(pipe, PipeCmd("RPUSHX", key, <<value>>, id))
remove_from_set(pipe, key, member, id) == Append(pipe, PipeCmd("SREM", key, <<member>>, id))
delete_string(pipe, key, id) == Append(pipe, PipeCmd("DEL", key, <<>>, id))

check_slice_not_empty(value) == Len(value) > 0

SetIndexKeys ==
    {INDEX_ORDER_IDS, INDEX_ORDERS, INDEX_ORDERS_OPEN, INDEX_ORDERS_CLOSED,
     INDEX_ORDERS_EMULATED, INDEX_ORDERS_INFLIGHT, INDEX_POSITIONS,
     INDEX_POSITIONS_OPEN, INDEX_POSITIONS_CLOSED}

HashIndexKeys == {INDEX_ORDER_POSITION, INDEX_ORDER_CLIENT}

RemoveIndexKeys ==
    {INDEX_ORDERS_OPEN, INDEX_ORDERS_CLOSED, INDEX_ORDERS_EMULATED,
     INDEX_ORDERS_INFLIGHT, INDEX_POSITIONS_OPEN, INDEX_POSITIONS_CLOSED}

\* insert_index: the index key is taken from the key it is given, which is the
\* trader-qualified key; value[1] of a one-element slice is out of bounds
insert_index(pipe, key, value, id) ==
    LET index_key == get_index_key(key)
    IN  IF ~index_key.ok THEN Built(pipe, "Err")
        ELSE IF index_key.v \in SetIndexKeys
            THEN Built(insert_set(pipe, key, value[1], id), "Ok")
        ELSE IF index_key.v \in HashIndexKeys
            THEN IF Len(value) < 2 THEN Built(pipe, "Panic")
                 ELSE Built(insert_hset(pipe, key, value[1], value[2], id), "Ok")
        ELSE Built(pipe, "Err")

\* Mutant of insert: snapshots are written like the scalar collections
insert_snapshots_as_string(pipe, collection, key, value, id) ==
    IF ~check_slice_not_empty(value) THEN Built(pipe, "Err")
    ELSE IF collection = INDEX THEN insert_index(pipe, key, value, id)
    ELSE IF collection \in {GENERAL, CURRENCIES, INSTRUMENTS, SYNTHETICS,
                            ACTORS, STRATEGIES, HEALTH, SNAPSHOTS}
        THEN Built(insert_string(pipe, key, value[1], id), "Ok")
    ELSE IF collection \in {ACCOUNTS, ORDERS, POSITIONS}
        THEN Built(insert_list(pipe, key, value[1], id), "Ok")
    ELSE Built(pipe, "Err")

insert(pipe, collection, key, value, id) ==
    IF ~check_slice_not_empty(value) THEN Built(pipe, "Err")
    ELSE IF collection = INDEX THEN insert_index(pipe, key, value, id)
    ELSE IF collection \in {GENERAL, CURRENCIES, INSTRUMENTS, SYNTHETICS,
                            ACTORS, STRATEGIES, HEALTH}
        THEN Built(insert_string(pipe, key, value[1], id), "Ok")
    ELSE IF collection \in {ACCOUNTS, ORDERS, POSITIONS, SNAPSHOTS}
        THEN Built(insert_list(pipe, key, value[1], id), "Ok")
    ELSE Built(pipe, "Err")

\* Mutant of update: snapshots are accepted like the other list collections
update_with_snapshots(pipe, collection, key, value, id) ==
    IF ~check_slice_not_empty(value) THEN Built(pipe, "Err")
    ELSE IF collection \in {ACCOUNTS, ORDERS, POSITIONS, SNAPSHOTS}
        THEN Built(update_list(pipe, key, value[1], id), "Ok")
    ELSE Built(pipe, "Err")

update(pipe, collection, key, value, id) ==
    IF ~check_slice_not_empty(value) THEN Built(pipe, "Err")
    ELSE IF collection \in {ACCOUNTS, ORDERS, POSITIONS}
        THEN Built(update_list(pipe, key, value[1], id), "Ok")
    ELSE Built(pipe, "Err")

\* remove_index: value[0] of an empty vector is out of bounds
remove_index(pipe, key, value, id) ==
    IF ~IsSome(value) THEN Built(pipe, "Err")
    ELSE LET index_key == get_index_key(key)
         IN  IF ~index_key.ok THEN Built(pipe, "Err")
             ELSE IF index_key.v \in RemoveIndexKeys
                 THEN IF Len(Unwrap(value)) < 1 THEN Built(pipe, "Panic")
                      ELSE Built(remove_from_set(pipe, key, Unwrap(value)[1], id), "Ok")
             ELSE Built(pipe, "Err")

delete(pipe, collection, key, value, id) ==
    IF collection = INDEX THEN remove_index(pipe, key, value, id)
    ELSE IF collection \in {ACTORS, STRATEGIES}
        THEN Built(delete_string(pipe, key, id), "Ok")
    ELSE Built(pipe, "Err")

\* drain_buffer, the body of the loop over one drained message
DrainMessage(tk, pipe, msg) ==
    IF ~IsSome(msg.key) THEN Built(pipe, "Panic")
    ELSE LET collection == get_collection_key(Unwrap(msg.key))
             key == FullKey(tk, Unwrap(msg.key))
         IN  IF ~collection.ok THEN Built(pipe, "Err")
             ELSE IF msg.op_type = "Insert"
                 THEN IF IsSome(msg.payload)
                      THEN insert(pipe, collection.v, key, Unwrap(msg.payload), msg.id)
                      ELSE Built(pipe, "Err")
             ELSE IF msg.op_type = "Update"
                 THEN IF IsSome(msg.payload)
                      THEN update(pipe, collection.v, key, Unwrap(msg.payload), msg.id)
                      ELSE Built(pipe, "Err")
             ELSE IF msg.op_type = "Delete"
                 THEN delete(pipe, collection.v, key, msg.payload, msg.id)
             ELSE Built(pipe, "Panic")

\* drain_buffer, the loop `for msg in buffer.drain(..)`: the pipeline built, the
\* ids logged with an error, and whether (and on which message) it panicked
RECURSIVE DrainLoop(_, _, _, _)
DrainLoop(tk, msgs, pipe, logged) ==
    IF msgs = <<>> THEN [pipe |-> pipe, logged |-> logged, panic |-> FALSE]
    ELSE LET b == DrainMessage(tk, pipe, Head(msgs))
         IN  IF b.res = "Panic"
                 THEN [pipe |-> b.pipe, logged |-> logged, panic |-> TRUE]
             ELSE DrainLoop(tk, Tail(msgs), b.pipe,
                            IF b.res = "Err" THEN logged \cup {Head(msgs).id} ELSE logged)

----------------------------------------------------------------------------
(* The store: a function from the keys present to their values; a value is *)
(* a string, a list, a set or a hash.                                      *)

Put(s, k, v) == [x \in (DOMAIN s) \cup {k} |-> IF x = k THEN v ELSE s[x]]
Remove(s, k) == [x \in (DOMAIN s) \ {k} |-> s[x]]

StringVal(v) == [t |-> "string", v |-> v]
ListVal(v) == [t |-> "list", v |-> v]
SetVal(v) == [t |-> "set", v |-> v]
HashVal(v) == [t |-> "hash", v |-> v]

\* One primitive applied by the store
ApplyCmd(s, c) ==
    LET k == c.key
        present == k \in DOMAIN s
    IN  CASE c.prim = "SET" -> Put(s, k, StringVal(c.args[1]))
          [] c.prim = "RPUSH" ->
                Put(s, k, ListVal((IF present THEN s[k].v ELSE <<>>) \o <<c.args[1]>>))
          [] c.prim = "RPUSHX" ->
                IF present THEN Put(s, k, ListVal(s[k].v \o <<c.args[1]>>)) ELSE s
          [] c.prim = "SADD" ->
                Put(s, k, SetVal((IF present THEN s[k].v ELSE {}) \cup {c.args[1]}))
          [] c.prim = "SREM" ->
                IF ~present THEN s
                ELSE IF s[k].v \ {c.args[1]} = {} THEN Remove(s, k)
                ELSE Put(s, k, SetVal(s[k].v \ {c.args[1]}))
          [] c.prim = "HSET" ->
                Put(s, k, HashVal(Put(IF present THEN s[k].v ELSE <<>>, c.args[1], c.args[2])))
          [] c.prim = "DEL" -> Remove(s, k)

\* MULTI/EXEC: the commands of one pipeline applied in order
RECURSIVE ApplyPipe(_, _)
ApplyPipe(s, pipe) ==
    IF pipe = <<>> THEN s ELSE ApplyPipe(ApplyCmd(s, Head(pipe)), Tail(pipe))

\* The commands of a pipeline the store executes with an effect: all of them
\* but an RPUSHX on a key that does not exist
RECURSIVE Effective(_, _)
Effective(s, pipe) ==
    IF pipe = <<>> THEN <<>>
    ELSE (IF Head(pipe).prim = "RPUSHX" /\ Head(pipe).key \notin DOMAIN s
             THEN <<>> ELSE <<Head(pipe)>>)
         \o Effective(ApplyCmd(s, Head(pipe)), Tail(pipe))

----------------------------------------------------------------------------
(* Inputs *)

TRADER_ID == "TESTER-001"
INSTANCE_ID == "uuid4"

K_ORDER == <<"orders", ":", "O-1">>
K_CURRENCY == <<"currencies", ":", "USD">>
K_NO_DELIMITER == <<"no_delimiter">>

Call(op, key, payload) == [op |-> op, key |-> key, payload |-> payload]

\* The calls the producer of Spec draws from
ApiCalls ==
    { Call("Insert", K_ORDER, Some(<<"e1">>)),
      Call("Insert", K_ORDER, Some(<<"e2">>)),
      Call("Update", K_ORDER, Some(<<"e3">>)),
      Call("Update", K_CURRENCY, Some(<<"x">>)),
      Call("Insert", K_NO_DELIMITER, Some(<<"e1">>)),
      Call("Insert", INDEX_ORDERS_OPEN, Some(<<"O-1">>)),
      Call("Delete", INDEX_ORDERS_OPEN, Some(<<>>)) }

----------------------------------------------------------------------------
(* State machine *)

Alive == pc \notin {"done", "panicked"}

\* Nothing has been returned by a read or an adapter call yet
NoReturn == [op |-> "none"]

Init ==
    /\ \E use_trader_prefix \in BOOLEAN, use_instance_id \in BOOLEAN :
          trader_key = get_trader_key(TRADER_ID, INSTANCE_ID,
                                      use_trader_prefix, use_instance_id)
    /\ buffer_interval \in {0, MaxInterval}
    /\ engine = "open"
    /\ queue = <<>>
    /\ pc = "loop"
    /\ buffer = <<>>
    /\ elapsed = 0
    /\ store = <<>>
    /\ calls = <<>>
    /\ submitted = <<>>
    /\ applied = <<>>
    /\ errors = {}
    /\ returned = NoReturn

\* Mutant of Send: the command is enqueued and Ok returned whether or not the
\* receiver lives
Send_unchecked(op_type, key, payload) ==
    LET id == Len(calls) + 1
        op == NewCommand(op_type, key, payload, id)
    IN  /\ engine \in {"open", "closed"}
        /\ queue' = Append(queue, op)
        /\ calls' = Append(calls, [op |-> op_type, key |-> key, payload |-> payload,
                                   result |-> "Ok"])
        /\ UNCHANGED <<trader_key, buffer_interval, returned, engine, pc, buffer, elapsed,
                       store, submitted, applied, errors>>

\* Mutant of Send: the key is validated before the command is enqueued
Send_validating(op_type, key, payload) ==
    LET id == Len(calls) + 1
        op == NewCommand(op_type, key, payload, id)
        valid == get_collection_key(key).ok
        result == IF ~valid THEN "InvalidKey"
                  ELSE IF Alive THEN "Ok" ELSE FAILED_TX_CHANNEL
    IN  /\ engine \in {"open", "closed"}
        /\ queue' = IF Alive /\ valid THEN Append(queue, op) ELSE queue
        /\ calls' = Append(calls, [op |-> op_type, key |-> key, payload |-> payload,
                                   result |-> result])
        /\ UNCHANGED <<trader_key, buffer_interval, returned, engine, pc, buffer, elapsed,
                       store, submitted, applied, errors>>

\* tx.send(op) in insert/update/delete: Ok and enqueued while the receiver
\* lives, otherwise the ChannelSend error and nothing enqueued
Send(op_type, key, payload) ==
    LET id == Len(calls) + 1
        op == NewCommand(op_type, key, payload, id)
        result == IF Alive THEN "Ok" ELSE FAILED_TX_CHANNEL
    IN  /\ engine \in {"open", "closed"}
        /\ queue' = IF Alive THEN Append(queue, op) ELSE queue
        /\ calls' = Append(calls, [op |-> op_type, key |-> key, payload |-> payload,
                                   result |-> result])
        /\ UNCHANGED <<trader_key, buffer_interval, returned, engine, pc, buffer, elapsed,
                       store, submitted, applied, errors>>

Insert(key, payload) == Send("Insert", key, payload)
Update(key, payload) == Send("Update", key, payload)
Delete(key, payload) == Send("Delete", key, payload)

\* close(): send Close (an error is only logged), then block on the handle
CloseCall ==
    /\ engine = "open"
    /\ engine' = "closing"
    /\ queue' = IF Alive THEN Append(queue, CloseCommand) ELSE queue
    /\ UNCHANGED <<trader_key, buffer_interval, returned, pc, buffer, elapsed, store,
                   calls, submitted, applied, errors>>

\* close(): block_on(&mut self.handle) completes once the task has ended
CloseReturn ==
    /\ engine = "closing"
    /\ ~Alive
    /\ engine' = "closed"
    /\ UNCHANGED <<trader_key, buffer_interval, returned, queue, pc, buffer, elapsed, store,
                   calls, submitted, applied, errors>>

\* The engine is dropped without close(): the sending half goes away
Drop ==
    /\ engine = "open"
    /\ engine' = "dropped"
    /\ UNCHANGED <<trader_key, buffer_interval, returned, queue, pc, buffer, elapsed, store,
                   calls, submitted, applied, errors>>

\* The entry of `errors` for the transport error of the n-th pipeline submitted
TransportError(n) == 0 - n

RECURSIVE Ids(_)
Ids(msgs) == IF msgs = <<>> THEN <<>> ELSE <<Head(msgs).id>> \o Ids(Tail(msgs))

\* Mutant of drain_buffer: after a transport error the batch stays in the
\* buffer, to be submitted again
drain_buffer_retry(next_pc) ==
    LET r == DrainLoop(trader_key, buffer, <<>>, {})
    IN  IF r.panic
           THEN /\ pc' = "panicked"
                /\ queue' = <<>>
                /\ buffer' = <<>>
                /\ errors' = errors \cup r.logged
                /\ UNCHANGED <<store, submitted, applied>>
           ELSE /\ \E result \in {"Ok", "Err"}, executed \in BOOLEAN :
                     /\ result = "Ok" => executed
                     /\ submitted' = Append(submitted,
                            [msgs |-> Ids(buffer), pipe |-> r.pipe, result |-> result])
                     /\ store' = IF executed THEN ApplyPipe(store, r.pipe) ELSE store
                     /\ applied' = IF executed
                                      THEN applied \o Effective(store, r.pipe)
                                      ELSE applied
                     /\ errors' = errors \cup r.logged
                                     \cup (IF result = "Err"
                                              THEN {TransportError(Len(submitted) + 1)}
                                              ELSE {})
                     /\ buffer' = IF result = "Ok" THEN <<>> ELSE buffer
                     /\ pc' = IF result = "Ok" THEN next_pc ELSE pc
                /\ UNCHANGED queue

\* Mutant of drain_buffer: the pipeline is not atomic, a submission that fails
\* may leave any leading part of it applied
drain_buffer_partial(next_pc) ==
    LET r == DrainLoop(trader_key, buffer, <<>>, {})
    IN  /\ buffer' = <<>>
        /\ IF r.panic
              THEN /\ pc' = "panicked"
                   /\ queue' = <<>>
                   /\ errors' = errors \cup r.logged
                   /\ UNCHANGED <<store, submitted, applied>>
              ELSE /\ pc' = next_pc
                   /\ \E result \in {"Ok", "Err"}, n \in 0..Len(r.pipe) :
                        LET part == SubSeq(r.pipe, 1, n)
                        IN  /\ result = "Ok" => n = Len(r.pipe)
                            /\ submitted' = Append(submitted,
                                   [msgs |-> Ids(buffer), pipe |-> r.pipe,
                                    result |-> result])
                            /\ store' = ApplyPipe(store, part)
                            /\ applied' = applied \o Effective(store, part)
                            /\ errors' = errors \cup r.logged
                                            \cup (IF result = "Err"
                                                     THEN {TransportError(Len(submitted) + 1)}
                                                     ELSE {})
                   /\ UNCHANGED queue

\* drain_buffer: build the pipeline from the whole buffer and submit it; a
\* panic unwinds the task (buffer and receiver are dropped, nothing submitted);
\* a transport error is logged, whether or not the store had executed the batch
drain_buffer(next_pc) ==
    LET r == DrainLoop(trader_key, buffer, <<>>, {})
    IN  /\ buffer' = <<>>
        /\ IF r.panic
              THEN /\ pc' = "panicked"
                   /\ queue' = <<>>
                   /\ errors' = errors \cup r.logged
                   /\ UNCHANGED <<store, submitted, applied>>
              ELSE /\ pc' = next_pc
                   /\ \E result \in {"Ok", "Err"}, executed \in BOOLEAN :
                        /\ result = "Ok" => executed
                        /\ submitted' = Append(submitted,
                               [msgs |-> Ids(buffer), pipe |-> r.pipe, result |-> result])
                        /\ store' = IF executed THEN ApplyPipe(store, r.pipe) ELSE store
                        /\ applied' = IF executed
                                         THEN applied \o Effective(store, r.pipe)
                                         ELSE applied
                        /\ errors' = errors \cup r.logged
                                        \cup (IF result = "Err"
                                                 THEN {TransportError(Len(submitted) + 1)}
                                                 ELSE {})
                   /\ UNCHANGED queue

\* process_commands, loop: the buffer is due and not empty
LoopFlush ==
    /\ pc = "loop"
    /\ elapsed >= buffer_interval /\ buffer # <<>>
    /\ drain_buffer("loop")
    /\ elapsed' = 0
    /\ UNCHANGED <<trader_key, buffer_interval, returned, engine, calls>>

\* Mutant of LoopAwait: the worker may await the next command while a flush is due
LoopAwait_while_due ==
    /\ pc = "loop"
    /\ pc' = "recv"
    /\ UNCHANGED <<trader_key, buffer_interval, returned, engine, queue, buffer, elapsed,
                   store, calls, submitted, applied, errors>>

\* process_commands, loop: otherwise start awaiting rx.recv()
LoopAwait ==
    /\ pc = "loop"
    /\ ~(elapsed >= buffer_interval /\ buffer # <<>>)
    /\ pc' = "recv"
    /\ UNCHANGED <<trader_key, buffer_interval, returned, engine, queue, buffer, elapsed,
                   store, calls, submitted, applied, errors>>

\* Mutant of Recv: the message is pushed to the front of the buffer
Recv_push_front ==
    /\ pc = "recv"
    /\ queue # <<>>
    /\ queue' = Tail(queue)
    /\ IF Head(queue).op_type = "Close"
          THEN pc' = "final" /\ UNCHANGED buffer
          ELSE pc' = "loop" /\ buffer' = <<Head(queue)>> \o buffer
    /\ UNCHANGED <<trader_key, buffer_interval, returned, engine, elapsed, store, calls,
                   submitted, applied, errors>>

\* Mutant of Recv: a Close is buffered like any command before the loop breaks
Recv_buffering_close ==
    /\ pc = "recv"
    /\ queue # <<>>
    /\ queue' = Tail(queue)
    /\ buffer' = Append(buffer, Head(queue))
    /\ pc' = IF Head(queue).op_type = "Close" THEN "final" ELSE "loop"
    /\ UNCHANGED <<trader_key, buffer_interval, returned, engine, elapsed, store, calls,
                   submitted, applied, errors>>

\* rx.recv() yields Some(msg): Close breaks the loop, anything else is buffered
Recv ==
    /\ pc = "recv"
    /\ queue # <<>>
    /\ queue' = Tail(queue)
    /\ IF Head(queue).op_type = "Close"
          THEN pc' = "final" /\ UNCHANGED buffer
          ELSE pc' = "loop" /\ buffer' = Append(buffer, Head(queue))
    /\ UNCHANGED <<trader_key, buffer_interval, returned, engine, elapsed, store, calls,
                   submitted, applied, errors>>

\* rx.recv() yields None: the channel is empty and the sender is gone
Hangup ==
    /\ pc = "recv"
    /\ queue = <<>>
    /\ engine = "dropped"
    /\ pc' = "final"
    /\ UNCHANGED <<trader_key, buffer_interval, returned, engine, queue, buffer, elapsed,
                   store, calls, submitted, applied, errors>>

\* Mutant of Final: the worker returns without draining what remains
Final_no_drain ==
    /\ pc = "final"
    /\ pc' = "done"
    /\ UNCHANGED <<trader_key, buffer_interval, returned, engine, queue, buffer, elapsed,
                   store, calls, submitted, applied, errors>>

\* process_commands, after the loop: drain what remains, then return
Final ==
    /\ pc = "final"
    /\ IF buffer # <<>>
          THEN drain_buffer("done")
          ELSE pc' = "done" /\ UNCHANGED <<queue, buffer, store, submitted, applied, errors>>
    /\ UNCHANGED <<trader_key, buffer_interval, returned, engine, elapsed, calls>>

\* The clock advances while the worker runs (counted up to the interval)
Tick ==
    /\ Alive
    /\ elapsed < buffer_interval
    /\ elapsed' = elapsed + 1
    /\ UNCHANGED <<trader_key, buffer_interval, returned, engine, queue, pc, buffer, store,
                   calls, submitted, applied, errors>>

Producer ==
    /\ Len(calls) < MaxCalls
    /\ \E c \in ApiCalls :
          \/ c.op = "Insert" /\ Insert(c.key, c.payload)
          \/ c.op = "Update" /\ Update(c.key, c.payload)
          \/ c.op = "Delete" /\ Delete(c.key, c.payload)

Worker == LoopFlush \/ LoopAwait \/ Recv \/ Hangup \/ Final

Next == Producer \/ CloseCall \/ CloseReturn \/ Drop \/ Worker \/ Tick

Spec == Init /\ [][Next]_vars

\* The scheduler runs the worker task whenever it can take a step
LiveSpec == Init /\ [][Next]_vars /\ WF_vars(Worker)

----------------------------------------------------------------------------
(* Dispatch specification: the first call is drawn from every operation,    *)
(* every key shape and every payload shape; one call of FollowUps may follow *)

Collections ==
    {"index", "general", "currencies", "instruments", "synthetics", "accounts",
     "orders", "positions", "actors", "strategies", "snapshots", "health"}

IndexTails ==
    {"order_ids", "order_position", "order_client", "orders", "orders_open",
     "orders_closed", "orders_emulated", "orders_inflight", "positions",
     "positions_open", "positions_closed"}

AllKeys ==
    {<<c, ":", "X">> : c \in Collections \cup {"unknown"}}
        \cup {<<"index", ":", t>> : t \in IndexTails}
        \cup {<<"index", ":", "orders_open", ":", "S-1">>, K_NO_DELIMITER, <<"index">>}

AllPayloads == {None, Some(<<>>), Some(<<"a">>), Some(<<"a", "b">>)}

FirstCall ==
    /\ calls = <<>>
    /\ \E key \in AllKeys, payload \in AllPayloads :
          \/ Insert(key, payload)
          \/ Update(key, payload)
          \/ Delete(key, payload)

\* The calls that may follow the first one
FollowUps ==
    { Call("Insert", K_ORDER, Some(<<"e1">>)),
      Call("Insert", INDEX_ORDERS_OPEN, Some(<<"O-1">>)),
      Call("Delete", INDEX_ORDERS_OPEN, Some(<<>>)) }

FollowUp ==
    /\ Len(calls) = 1
    /\ \E c \in FollowUps :
          \/ c.op = "Insert" /\ Insert(c.key, c.payload)
          \/ c.op = "Update" /\ Update(c.key, c.payload)
          \/ c.op = "Delete" /\ Delete(c.key, c.payload)

DispatchNext == FirstCall \/ FollowUp \/ CloseCall \/ CloseReturn \/ Drop \/ Worker \/ Tick

DispatchSpec == Init /\ [][DispatchNext]_vars

----------------------------------------------------------------------------
(* Properties *)

Last(seq) == seq[Len(seq)]

\* Every store command submitted so far, in submission order
RECURSIVE AllPipes(_)
AllPipes(n) == IF n = 0 THEN <<>> ELSE AllPipes(n - 1) \o submitted[n].pipe

\* The id of every command drained into a submitted pipeline, in submission order
RECURSIVE AllMsgs(_)
AllMsgs(n) == IF n = 0 THEN <<>> ELSE AllMsgs(n - 1) \o submitted[n].msgs

SubmittedCmds == AllPipes(Len(submitted))
SubmittedMsgs == AllMsgs(Len(submitted))

Handled(id) == \E i \in 1..Len(SubmittedMsgs) : SubmittedMsgs[i] = id
CmdsOf(id) == SelectSeq(SubmittedCmds, LAMBDA c : c.id = id)

StrictlyIncreasing(seq) == \A i, j \in 1..Len(seq) : i < j => seq[i] < seq[j]

CmdIds(pipe) == [i \in 1..Len(pipe) |-> pipe[i].id]
FirstArgs(pipe) == [i \in 1..Len(pipe) |-> pipe[i].args[1]]

Qualified(key) == trader_key \o <<":">> \o key

HasPayload(c) == Len(c.payload) = 1 /\ Len(c.payload[1]) >= 1

\* The first segment of a key that has one name before its first delimiter
Delimited(key) == Len(key) >= 2 /\ key[1] # ":" /\ key[2] = ":"

ScalarNames ==
    {"general", "currencies", "instruments", "synthetics", "actors", "strategies", "health"}
ListNames == {"accounts", "orders", "positions", "snapshots"}
UpdateNames == {"accounts", "orders", "positions"}

----------------------------------------------------------------------------
(* C1: commands reach the pipelines in enqueue order: the ids waiting in the *)
(* channel and the buffer, and the ids drained into successive pipelines,   *)
(* only grow; the store commands of the pipelines follow the same order;    *)
(* and every list of the store holds payload[0] of the inserts and updates  *)
(* executed on its key, in the order they were enqueued.                    *)
PendingIds == SelectSeq(Ids(buffer) \o Ids(queue), LAMBDA i : i # 0)

ListCmds(k) == SelectSeq(applied, LAMBDA c : c.key = k)

C1_EnqueueOrder ==
    /\ StrictlyIncreasing(SubmittedMsgs \o PendingIds)
    /\ StrictlyIncreasing(CmdIds(SubmittedCmds))
    /\ \A i \in 1..Len(submitted) :
          /\ StrictlyIncreasing(submitted[i].msgs)
          /\ StrictlyIncreasing(CmdIds(submitted[i].pipe))
    /\ StrictlyIncreasing(CmdIds(applied))
    /\ \A k \in DOMAIN store :
          store[k].t = "list" =>
              /\ store[k].v = FirstArgs(ListCmds(k))
              /\ \A i \in 1..Len(ListCmds(k)) :
                    LET c == ListCmds(k)[i]
                    IN  /\ c.id \in 1..Len(calls)
                        /\ k = Qualified(calls[c.id].key)
                        /\ HasPayload(calls[c.id])
                        /\ c.args[1] = calls[c.id].payload[1][1]

\* Two inserts on one list key were flushed in one pipeline and are in the store
C1_Witness ==
    \E k \in DOMAIN store :
        /\ store[k].t = "list"
        /\ store[k].v = <<"e1", "e2">>
        /\ \E i \in 1..Len(submitted) : Len(submitted[i].pipe) = 2

----------------------------------------------------------------------------
(* C2: where close() has returned, the worker task has ended, its buffer is *)
(* empty, and every command whose call returned Ok was drained into a       *)
(* pipeline that was submitted to the store.                                *)
C2_CloseFlushesAll ==
    engine = "closed" =>
        /\ ~Alive
        /\ buffer = <<>>
        /\ \A id \in 1..Len(calls) : calls[id].result = "Ok" => Handled(id)

----------------------------------------------------------------------------
(* C3: once close() has returned the worker has ended and nothing waits in  *)
(* the channel or the buffer; from then on every insert, update or delete   *)
(* returns the ChannelSend error, and no step changes the channel, the      *)
(* buffer, the pipelines submitted or the store.                            *)
C3_ClosedState ==
    engine = "closed" => ~Alive /\ queue = <<>> /\ buffer = <<>>

C3_ClosedStep ==
    engine = "closed" =>
        /\ calls' # calls => Last(calls').result = FAILED_TX_CHANNEL
        /\ UNCHANGED <<queue, buffer, submitted, applied, store, pc>>

C3_SendAfterClose == []C3_ClosedState /\ [][C3_ClosedStep]_vars

\* close() returned after a regular shutdown and a later call was refused
C3_Witness ==
    /\ engine = "closed"
    /\ pc = "done"
    /\ calls # <<>>
    /\ Last(calls).result = FAILED_TX_CHANNEL
    /\ \E id \in 1..Len(calls) : calls[id].result = "Ok" /\ Handled(id)

----------------------------------------------------------------------------
(* C4: a call never validates and never waits: while the receiver lives it  *)
(* returns Ok and appends exactly one command, made of its arguments as     *)
(* given, to the channel; otherwise it returns ChannelSend and appends      *)
(* nothing; no call moves the worker or touches the store.                  *)
C4_CallStep ==
    calls' # calls =>
        LET c == Last(calls')
        IN  /\ calls' = Append(calls, c)
            /\ c.result \in {"Ok", FAILED_TX_CHANNEL}
            /\ Alive =>
                  /\ c.result = "Ok"
                  /\ queue' = Append(queue, [op_type |-> c.op, key |-> <<c.key>>,
                                             payload |-> c.payload, id |-> Len(calls')])
            /\ ~Alive => c.result = FAILED_TX_CHANNEL /\ queue' = queue
            /\ UNCHANGED <<pc, buffer, elapsed, store, submitted, applied, errors, engine>>

C4_EnqueueOnly == [][C4_CallStep]_vars

\* A call with a key without delimiter and no payload returned Ok while the
\* worker ran, and a call made after close() returned was refused
C4_Witness ==
    /\ Len(calls) = 2
    /\ calls[1].key = K_NO_DELIMITER
    /\ calls[1].payload = None
    /\ calls[1].result = "Ok"
    /\ engine = "closed"
    /\ calls[2].result = FAILED_TX_CHANNEL

----------------------------------------------------------------------------
(* C5: a batch with an ill-formed command (key without delimiter, unknown   *)
(* collection, unknown index tail, payload absent or empty where one is     *)
(* required) is still flushed: the ill-formed command is logged and adds    *)
(* nothing, every well-formed command adds its store command, in order, and *)
(* the worker does not die.                                                 *)
PayloadRequired(c) ==
    \/ c.op \in {"Insert", "Update"}
    \/ c.op = "Delete" /\ Delimited(c.key) /\ c.key[1] = "index"

IllFormed(c) ==
    \/ ~Delimited(c.key)
    \/ c.key[1] \notin Collections
    \/ c.key[1] = "index" /\ (Len(c.key) # 3 \/ c.key[3] \notin IndexTails)
    \/ PayloadRequired(c) /\ ~HasPayload(c)

WellFormed(c) ==
    /\ ~IllFormed(c)
    /\ \/ c.op = "Insert" /\ c.key[1] # "index"
       \/ c.op = "Insert" /\ c.key[1] = "index"
            /\ (c.key[3] \in {"order_position", "order_client"} => Len(c.payload[1]) = 2)
       \/ c.op = "Update" /\ c.key[1] \in UpdateNames
       \/ c.op = "Delete" /\ c.key[1] \in {"actors", "strategies"}
       \/ c.op = "Delete" /\ c.key[1] = "index"
            /\ c.key[3] \in {"orders_open", "orders_closed", "orders_emulated",
                             "orders_inflight", "positions_open", "positions_closed"}

C5_SkipIllFormed ==
    /\ pc # "panicked"
    /\ \A i \in 1..Len(submitted) :
          /\ StrictlyIncreasing(CmdIds(submitted[i].pipe))
          /\ \A j \in 1..Len(submitted[i].msgs) :
               LET id == submitted[i].msgs[j]
               IN  /\ IllFormed(calls[id]) => CmdsOf(id) = <<>> /\ id \in errors
                   /\ WellFormed(calls[id]) => Len(CmdsOf(id)) = 1

----------------------------------------------------------------------------
(* C6: whenever the buffer is not empty and buffer_interval has elapsed     *)
(* since the last drain, the worker eventually flushes the buffer.          *)
FlushDue == Alive /\ buffer # <<>> /\ elapsed >= buffer_interval

C6_TimedFlush == [](FlushDue => <>(buffer = <<>>))

----------------------------------------------------------------------------
(* C7: a pipeline whose submission fails is dropped like one that succeeds: *)
(* the buffer is empty after it, the worker continues where it would have   *)
(* (the loop, or its return after the final flush), no command is drained   *)
(* into a second pipeline, and calls made while the worker runs on return   *)
(* Ok.                                                                      *)
C7_NoResubmit ==
    \A i, j \in 1..Len(SubmittedMsgs) : i # j => SubmittedMsgs[i] # SubmittedMsgs[j]

C7_FailedStep ==
    (submitted' # submitted /\ Last(submitted').result = "Err") =>
        /\ submitted' = Append(submitted, Last(submitted'))
        /\ Last(submitted').msgs = Ids(buffer)
        /\ 0 - Len(submitted') \in errors'
        /\ buffer' = <<>>
        /\ queue' = queue
        /\ pc' = IF pc = "final" THEN "done" ELSE "loop"

C7_CallAfterFailure ==
    (calls' # calls /\ submitted # <<>> /\ Last(submitted).result = "Err"
        /\ pc \in {"loop", "recv"}) => Last(calls').result = "Ok"

C7_TransportError ==
    []C7_NoResubmit /\ [][C7_FailedStep]_vars /\ [][C7_CallAfterFailure]_vars

\* A submission failed, and a command enqueued after it was flushed into the store
C7_Witness ==
    /\ Len(submitted) = 2
    /\ submitted[1].result = "Err"
    /\ submitted[1].pipe # <<>>
    /\ submitted[2].result = "Ok"
    /\ submitted[2].pipe # <<>>
    /\ Len(calls) = 2 /\ calls[2].result = "Ok"
    /\ \E k \in DOMAIN store : store[k].t = "list" /\ store[k].v = <<"e2">>

----------------------------------------------------------------------------
(* C8: a drained Insert with a non-empty payload on a collection other than *)
(* index adds exactly SET key payload[0] for a scalar collection, exactly   *)
(* RPUSH key payload[0] for a list collection, and nothing (an error is     *)
(* logged) for a collection outside the reserved names; nothing but         *)
(* payload[0] is written.                                                   *)
C8_InsertByCollection ==
    \A id \in 1..Len(calls) :
        LET c == calls[id]
        IN  (Handled(id) /\ c.op = "Insert" /\ HasPayload(c)
                 /\ Delimited(c.key) /\ c.key[1] # "index") =>
            /\ c.key[1] \in ScalarNames =>
                 CmdsOf(id) = <<[prim |-> "SET", key |-> Qualified(c.key),
                                 args |-> <<c.payload[1][1]>>, id |-> id]>>
            /\ c.key[1] \in ListNames =>
                 CmdsOf(id) = <<[prim |-> "RPUSH", key |-> Qualified(c.key),
                                 args |-> <<c.payload[1][1]>>, id |-> id]>>
            /\ c.key[1] \notin Collections => CmdsOf(id) = <<>> /\ id \in errors

\* An Insert of two elements on a snapshots key was flushed: the store list
\* holds the first element alone
C8_Witness ==
    /\ calls # <<>>
    /\ calls[1].op = "Insert"
    /\ calls[1].key = <<"snapshots", ":", "X">>
    /\ calls[1].payload = Some(<<"a", "b">>)
    /\ Handled(1)
    /\ Qualified(calls[1].key) \in DOMAIN store
    /\ store[Qualified(calls[1].key)].t = "list"
    /\ store[Qualified(calls[1].key)].v = <<"a">>

----------------------------------------------------------------------------
(* C9: a drained Insert with a non-empty payload on a key index:<tail> adds *)
(* exactly SADD key payload[0] for the nine set tails, exactly              *)
(* HSET key payload[0] payload[1] for order_position and order_client, and  *)
(* nothing for any other tail.                                              *)
SetTails ==
    {"order_ids", "orders", "orders_open", "orders_closed", "orders_emulated",
     "orders_inflight", "positions", "positions_open", "positions_closed"}
HashTails == {"order_position", "order_client"}

C9_InsertByIndexTail ==
    \A id \in 1..Len(calls) :
        LET c == calls[id]
        IN  (Handled(id) /\ c.op = "Insert" /\ HasPayload(c)
                 /\ Len(c.key) = 3 /\ c.key[1] = "index" /\ c.key[2] = ":") =>
            /\ c.key[3] \in SetTails =>
                 CmdsOf(id) = <<[prim |-> "SADD", key |-> Qualified(c.key),
                                 args |-> <<c.payload[1][1]>>, id |-> id]>>
            /\ (c.key[3] \in HashTails /\ Len(c.payload[1]) >= 2) =>
                 CmdsOf(id) = <<[prim |-> "HSET", key |-> Qualified(c.key),
                                 args |-> <<c.payload[1][1], c.payload[1][2]>>, id |-> id]>>
            /\ c.key[3] \notin (SetTails \cup HashTails) => CmdsOf(id) = <<>>

----------------------------------------------------------------------------
(* C10: a drained Update adds exactly RPUSHX key payload[0] when its        *)
(* collection is accounts, orders or positions (and payload[0] exists), and *)
(* otherwise adds nothing and is logged; a flush of a batch of Updates on   *)
(* other collections leaves the store as it was and the worker running; a   *)
(* valid Insert drained after such an Update still adds its store command.  *)
Unsupported(m) ==
    m.op_type = "Update" /\ ~(Delimited(m.key[1]) /\ m.key[1][1] \in UpdateNames)

C10_UpdateTable ==
    \A id \in 1..Len(calls) :
        LET c == calls[id]
        IN  (Handled(id) /\ c.op = "Update") =>
               IF Delimited(c.key) /\ c.key[1] \in UpdateNames /\ HasPayload(c)
                  THEN CmdsOf(id) = <<[prim |-> "RPUSHX", key |-> Qualified(c.key),
                                       args |-> <<c.payload[1][1]>>, id |-> id]>>
                  ELSE CmdsOf(id) = <<>> /\ id \in errors

C10_ValidAfterwards ==
    \A i, j \in 1..Len(calls) :
        (i < j /\ calls[i].op = "Update" /\ Handled(i) /\ CmdsOf(i) = <<>>
              /\ Handled(j) /\ calls[j].op = "Insert" /\ calls[j].key = K_ORDER) =>
            Len(CmdsOf(j)) = 1 /\ CmdsOf(j)[1].prim = "RPUSH"

C10_UnsupportedStep ==
    (pc \in {"loop", "final"} /\ buffer # <<>> /\ buffer' = <<>>
         /\ \A i \in 1..Len(buffer) : Unsupported(buffer[i])) =>
        /\ store' = store
        /\ pc' = IF pc = "final" THEN "done" ELSE "loop"
        /\ queue' = queue
        /\ Len(submitted') = Len(submitted) + 1
        /\ Last(submitted').pipe = <<>>

C10_Update == [](C10_UpdateTable /\ C10_ValidAfterwards) /\ [][C10_UnsupportedStep]_vars

\* An Update on a currencies key was drained and logged, the key is not in the
\* store, and an Insert enqueued after it is in the store
C10_Witness ==
    /\ Len(calls) = 2
    /\ calls[1].op = "Update"
    /\ calls[1].key = <<"currencies", ":", "X">>
    /\ calls[1].payload = Some(<<"a">>)
    /\ Handled(1) /\ 1 \in errors
    /\ Qualified(calls[1].key) \notin DOMAIN store
    /\ calls[2].op = "Insert" /\ calls[2].key = K_ORDER
    /\ Handled(2)
    /\ Qualified(K_ORDER) \in DOMAIN store
    /\ Alive

----------------------------------------------------------------------------
(* C11: a drained Delete adds exactly DEL key when its collection is actors *)
(* or strategies (whatever its payload), exactly SREM key payload[0] when   *)
(* its key is index:<tail> with one of the six transition tails (and        *)
(* payload[0] exists), and no store command in every other case.            *)
TransitionTails ==
    {"orders_open", "orders_closed", "orders_emulated", "orders_inflight",
     "positions_open", "positions_closed"}

IndexKeyOf(key, tails) ==
    Len(key) = 3 /\ key[1] = "index" /\ key[2] = ":" /\ key[3] \in tails

C11_DeleteTable ==
    \A id \in 1..Len(calls) :
        LET c == calls[id]
        IN  (Handled(id) /\ c.op = "Delete") =>
               IF Delimited(c.key) /\ c.key[1] \in {"actors", "strategies"}
                  THEN CmdsOf(id) = <<[prim |-> "DEL", key |-> Qualified(c.key),
                                       args |-> <<>>, id |-> id]>>
               ELSE IF IndexKeyOf(c.key, TransitionTails) /\ HasPayload(c)
                  THEN CmdsOf(id) = <<[prim |-> "SREM", key |-> Qualified(c.key),
                                       args |-> <<c.payload[1][1]>>, id |-> id]>>
               ELSE CmdsOf(id) = <<>>

----------------------------------------------------------------------------
(* C13: where every call was an insert of a payload to a list key           *)
(* orders:<id> or of a member to a set-index key index:orders_open:<id>,    *)
(* close() has returned after a regular shutdown and every submission       *)
(* succeeded, each such list holds the payloads inserted on its key in      *)
(* enqueue order and each such set holds the members inserted on its key.   *)
IsListKey(key) == Len(key) = 3 /\ key[1] = "orders" /\ key[2] = ":"
IsMemberKey(key) ==
    Len(key) = 5 /\ key[1] = "index" /\ key[2] = ":" /\ key[3] = "orders_open"
        /\ key[4] = ":"

RECURSIVE InsertedOn(_, _)
InsertedOn(key, n) ==
    IF n = 0 THEN <<>>
    ELSE InsertedOn(key, n - 1)
            \o (IF calls[n].key = key THEN <<calls[n].payload[1][1]>> ELSE <<>>)

C13_Scenario ==
    /\ calls # <<>>
    /\ \A id \in 1..Len(calls) :
          /\ calls[id].op = "Insert" /\ calls[id].result = "Ok"
          /\ HasPayload(calls[id])
          /\ IsListKey(calls[id].key) \/ IsMemberKey(calls[id].key)
    /\ engine = "closed" /\ pc = "done"
    /\ \A i \in 1..Len(submitted) : submitted[i].result = "Ok"

C13_ListAndSetAfterClose ==
    C13_Scenario =>
        \A id \in 1..Len(calls) :
            LET key == calls[id].key
                k == Qualified(key)
                inserted == InsertedOn(key, Len(calls))
            IN  /\ k \in DOMAIN store
                /\ IsListKey(key) => store[k].t = "list" /\ store[k].v = inserted
                /\ IsMemberKey(key) =>
                      /\ store[k].t = "set"
                      /\ store[k].v = {inserted[i] : i \in 1..Len(inserted)}

----------------------------------------------------------------------------
(* Reads: RedisCacheDatabase::read and the read_* helpers, on the read      *)
(* connection. Each reader returns whether the store was queried and the    *)
(* set of results the call can return.                                      *)

\* Ok(Vec<Bytes>) of plain byte strings
Values(seq) == [values |-> seq]

\* serde_json::to_string of the HashMap returned by HGETALL
to_string(h) == [json |-> h]

\* Ok(vec![Bytes::from(json)])
Blobs(seq) == [blobs |-> seq]

ReadErr(e) == [error |-> e]

Reading(queried, results) == [queried |-> queried, results |-> results]

\* The orders in which the store may return the members of a set
Orderings(S) ==
    {f \in [1..Cardinality(S) -> S] : \A i, j \in 1..Cardinality(S) : i # j => f[i] # f[j]}

\* A query on the read connection: its replies, or a transport error
Query(replies) == Reading(TRUE, replies \cup {ReadErr("Transport")})

WrongType == {ReadErr("WrongType")}

\* Mutant of read_string: GET answers as if the key were absent
read_string_absent(s, key) == Query({Values(<<>>)})

read_string(s, key) ==
    Query(IF key \notin DOMAIN s THEN {Values(<<>>)}
          ELSE IF s[key].t # "string" THEN WrongType
          ELSE {Values(<<s[key].v>>)})

read_set(s, key) ==
    Query(IF key \notin DOMAIN s THEN {Values(<<>>)}
          ELSE IF s[key].t # "set" THEN WrongType
          ELSE {Values(o) : o \in Orderings(s[key].v)})

read_hset(s, key) ==
    Query(IF key \notin DOMAIN s THEN {Blobs(<<to_string(<<>>)>>)}
          ELSE IF s[key].t # "hash" THEN WrongType
          ELSE {Blobs(<<to_string(s[key].v)>>)})

read_list(s, key) ==
    Query(IF key \notin DOMAIN s THEN {Values(<<>>)}
          ELSE IF s[key].t # "list" THEN WrongType
          ELSE {Values(s[key].v)})

\* read_index: like insert_index, it takes the index key from the key it is
\* given, which is the trader-qualified key
read_index(s, key) ==
    LET index_key == get_index_key(key)
    IN  IF ~index_key.ok THEN Reading(FALSE, {ReadErr("InvalidKey")})
        ELSE IF index_key.v \in SetIndexKeys THEN read_set(s, key)
        ELSE IF index_key.v \in HashIndexKeys THEN read_hset(s, key)
        ELSE Reading(FALSE, {ReadErr("IndexUnknown")})

read(tk, s, k) ==
    LET collection == get_collection_key(k)
        key == FullKey(tk, k)
    IN  IF ~collection.ok THEN Reading(FALSE, {ReadErr("InvalidKey")})
        ELSE IF collection.v = INDEX THEN read_index(s, key)
        ELSE IF collection.v \in {GENERAL, CURRENCIES, INSTRUMENTS, SYNTHETICS,
                                  ACTORS, STRATEGIES}
            THEN read_string(s, key)
        ELSE IF collection.v \in {ACCOUNTS, ORDERS, POSITIONS}
            THEN read_list(s, key)
        ELSE Reading(FALSE, {ReadErr("UnsupportedOp")})

\* read(key) awaited on the read connection, while the worker goes on; the
\* result is recorded with the number of pipelines submitted before it
Read(k) ==
    /\ engine \in {"open", "closed"}
    /\ LET r == read(trader_key, store, k)
       IN  \E result \in r.results :
              returned' = [op |-> "read", key |-> k, result |-> result,
                           queried |-> r.queried, flushes |-> Len(submitted)]
    /\ UNCHANGED <<trader_key, buffer_interval, engine, queue, pc, buffer, elapsed,
                   store, calls, submitted, applied, errors>>

----------------------------------------------------------------------------
(* Read specification: an insert on any key shape, one call of ReadFollowUps *)
(* after it, and reads of the keys used so far at any moment                 *)

K_X(collection) == <<collection, ":", "X">>

ReadFirstCall ==
    /\ calls = <<>>
    /\ \E key \in AllKeys : Insert(key, Some(<<"a", "b">>))

ReadFollowUps ==
    { Call("Insert", K_X("orders"), Some(<<"c">>)),
      Call("Insert", INDEX_ORDERS, Some(<<"c">>)),
      Call("Delete", INDEX_ORDERS_OPEN, Some(<<"a">>)) }

ReadFollowUp ==
    /\ Len(calls) = 1
    /\ \E c \in ReadFollowUps :
          \/ c.op = "Insert" /\ Insert(c.key, c.payload)
          \/ c.op = "Delete" /\ Delete(c.key, c.payload)

ReadAny ==
    \E id \in 1..Len(calls) : Read(calls[id].key)

ReadNext ==
    ReadFirstCall \/ ReadFollowUp \/ ReadAny \/ CloseCall \/ CloseReturn \/ Drop
        \/ Worker \/ Tick

ReadSpec == Init /\ [][ReadNext]_vars

----------------------------------------------------------------------------
(* C12: whatever the trader key is made of, a drained Insert or Delete on a *)
(* key index:<tail> with a reserved tail (and the payload its primitive     *)
(* takes) adds the primitive of the table (SADD for the set tails, HSET for *)
(* order_position and order_client, SREM for a Delete on a transition       *)
(* tail), and a read of such a key queries the store and is never rejected  *)
(* as an unknown index.                                                     *)
C12_IndexResolvedFromKey ==
    /\ \A id \in 1..Len(calls) :
          LET c == calls[id]
              adds(prim) == Len(CmdsOf(id)) = 1 /\ CmdsOf(id)[1].prim = prim
                               /\ CmdsOf(id)[1].key = Qualified(c.key)
          IN  (Handled(id) /\ HasPayload(c)) =>
                 /\ (c.op = "Insert" /\ IndexKeyOf(c.key, SetTails)) => adds("SADD")
                 /\ (c.op = "Insert" /\ IndexKeyOf(c.key, HashTails)
                        /\ Len(c.payload[1]) >= 2) => adds("HSET")
                 /\ (c.op = "Delete" /\ IndexKeyOf(c.key, TransitionTails)) => adds("SREM")
    /\ (returned.op = "read" /\ IndexKeyOf(returned.key, IndexTails)) =>
          /\ returned.queried
          /\ returned.result # ReadErr("IndexUnknown")

----------------------------------------------------------------------------
(* C14: a read that returns a value observes every insert on its key whose  *)
(* flush had succeeded before the read, unless a later command of the       *)
(* flushes before the read overwrote or removed it: the string read is the  *)
(* inserted value, the list or set read contains it, the hash read maps the *)
(* inserted field to the inserted value. (Before that flush the read may    *)
(* return the value from before the insert: C14_Witness.)                   *)
Range(seq) == {seq[i] : i \in 1..Len(seq)}

Overwrites(c2, c) ==
    /\ c2.key = c.key /\ c2.id > c.id
    /\ \/ c2.prim \in {"SET", "DEL"}
       \/ c2.prim = "SREM" /\ c2.args[1] = c.args[1]
       \/ c2.prim = "HSET" /\ c2.args[1] = c.args[1]

Overwritten(c, flushes) ==
    \E n \in 1..flushes : \E j \in 1..Len(submitted[n].pipe) :
        Overwrites(submitted[n].pipe[j], c)

Observes(r, c) ==
    CASE c.prim = "SET" -> r = Values(<<c.args[1]>>)
      [] c.prim \in {"RPUSH", "SADD"} ->
            "values" \in DOMAIN r /\ c.args[1] \in Range(r.values)
      [] c.prim = "HSET" ->
            /\ "blobs" \in DOMAIN r /\ Len(r.blobs) = 1
            /\ c.args[1] \in DOMAIN r.blobs[1].json
            /\ r.blobs[1].json[c.args[1]] = c.args[2]
      [] OTHER -> FALSE

----------------------------------------------------------------------------
(* C15: the store only ever holds the result of whole pipelines (each       *)
(* pipeline submitted so far applied completely, or, if its submission      *)
(* failed, possibly not at all), and what a read returns is what one of     *)
(* these stores answers: never the effect of a proper part of a pipeline.   *)
RECURSIVE StoresAfter(_)
StoresAfter(n) ==
    IF n = 0 THEN {<<>>}
    ELSE LET before == StoresAfter(n - 1)
         IN  {ApplyPipe(s, submitted[n].pipe) : s \in before}
                \cup (IF submitted[n].result = "Err" THEN before ELSE {})

C15_AtomicFlush ==
    /\ store \in StoresAfter(Len(submitted))
    /\ returned.op = "read" =>
          \E s \in StoresAfter(returned.flushes) :
              returned.result \in read(trader_key, s, returned.key).results

\* Two inserts on orders:X were flushed in one pipeline, and a read of the
\* key after that flush returned both
C15_Witness ==
    /\ returned.op = "read" /\ returned.key = K_X("orders")
    /\ returned.flushes = 1
    /\ Len(submitted[1].pipe) = 2
    /\ returned.result = Values(<<"a", "c">>)

----------------------------------------------------------------------------
(* C16: a read dispatches on the collection of its key: a key without       *)
(* delimiter returns InvalidKey and a collection outside the table          *)
(* (health and snapshots included) returns UnsupportedOp, both without a    *)
(* query; a scalar collection returns [] for an absent value and else the   *)
(* one value; accounts, orders and positions return the list in store       *)
(* order; an index key returns the members for a set tail, and the hash as  *)
(* one JSON blob for order_position and order_client.                       *)
ReadScalarNames ==
    {"general", "currencies", "instruments", "synthetics", "actors", "strategies"}

Expected(ret, s) ==
    LET k == ret.key
        r == ret.result
        q == Qualified(k)
        transport == ret.queried /\ r = ReadErr("Transport")
    IN  IF FindDelimiter(k, 1) = 0
           THEN ~ret.queried /\ r = ReadErr("InvalidKey")
        ELSE IF k[1] \in ReadScalarNames
           THEN \/ transport
                \/ ret.queried /\ q \notin DOMAIN s /\ r = Values(<<>>)
                \/ ret.queried /\ q \in DOMAIN s /\ s[q].t = "string"
                      /\ r = Values(<<s[q].v>>)
        ELSE IF k[1] \in UpdateNames
           THEN \/ transport
                \/ ret.queried /\ q \notin DOMAIN s /\ r = Values(<<>>)
                \/ ret.queried /\ q \in DOMAIN s /\ s[q].t = "list" /\ r = Values(s[q].v)
        ELSE IF IndexKeyOf(k, SetTails)
           THEN \/ transport
                \/ ret.queried /\ q \notin DOMAIN s /\ r = Values(<<>>)
                \/ ret.queried /\ q \in DOMAIN s /\ s[q].t = "set"
                      /\ "values" \in DOMAIN r
                      /\ Len(r.values) = Cardinality(s[q].v)
                      /\ Range(r.values) = s[q].v
        ELSE IF IndexKeyOf(k, HashTails)
           THEN \/ transport
                \/ ret.queried /\ q \notin DOMAIN s /\ r = Blobs(<<[json |-> <<>>]>>)
                \/ ret.queried /\ q \in DOMAIN s /\ s[q].t = "hash"
                      /\ r = Blobs(<<[json |-> s[q].v]>>)
        ELSE IF k[1] = "index"
           THEN ~ret.queried /\ "error" \in DOMAIN r
        ELSE ~ret.queried /\ r = ReadErr("UnsupportedOp")

C16_ReadStep ==
    (returned' # returned /\ returned'.op = "read") => Expected(returned', store)

C16_ReadTable == [][C16_ReadStep]_vars

----------------------------------------------------------------------------
(* C17: once the engine is dropped without close(), the worker eventually   *)
(* has received everything that was enqueued, flushed it and returned:      *)
(* nothing waits in the channel or the buffer and every command whose call  *)
(* returned Ok was drained into a pipeline submitted to the store.          *)
Drained ==
    /\ pc = "done"
    /\ queue = <<>> /\ buffer = <<>>
    /\ \A id \in 1..Len(calls) : calls[id].result = "Ok" => Handled(id)

C17_DropDrains == (engine = "dropped") ~> Drained

----------------------------------------------------------------------------
(* The adapter (RedisCacheDatabaseAdapter): the refused methods, the        *)
(* collection loaders and load_all. A result is a record whose one field    *)
(* tells its kind: error, panic, map, cache_map.                            *)

\* anyhow::bail!(msg)
Bail(msg) == [error |-> msg]

\* todo!()
Todo == [panic |-> "not yet implemented"]

\* Mutant of add_signal: the method does nothing and returns Ok(())
add_signal_noop == [unit |-> TRUE]

add_order_book == Bail("Saving market data for Redis cache adapter not supported")
add_quote == Bail("Saving market data for Redis cache adapter not supported")
load_quotes == Bail("Loading quote data for Redis cache adapter not supported")
add_trade == Bail("Saving market data for Redis cache adapter not supported")
load_trades == Bail("Loading market data for Redis cache adapter not supported")
add_bar == Bail("Saving market data for Redis cache adapter not supported")
load_bars == Bail("Loading market data for Redis cache adapter not supported")
add_signal == Bail("Saving signals for Redis cache adapter not supported")
load_signals == Bail("Loading signals from Redis cache adapter not supported")
add_custom_data == Bail("Saving custom data for Redis cache adapter not supported")
load_custom_data == Bail("Loading custom data from Redis cache adapter not supported")
load_order_snapshot == Bail("Loading order snapshots from Redis cache adapter not supported")
load_position_snapshot ==
    Bail("Loading position snapshots from Redis cache adapter not supported")

\* The market-data and snapshot-loading methods, by name
Refused ==
    [add_order_book |-> add_order_book, add_quote |-> add_quote,
     load_quotes |-> load_quotes, add_trade |-> add_trade,
     load_trades |-> load_trades, add_bar |-> add_bar, load_bars |-> load_bars,
     add_signal |-> add_signal, load_signals |-> load_signals,
     add_custom_data |-> add_custom_data, load_custom_data |-> load_custom_data,
     load_order_snapshot |-> load_order_snapshot,
     load_position_snapshot |-> load_position_snapshot]

\* A call of one of the refused methods (they take &self and use nothing);
\* a behaviour holds one adapter call, made at any moment
RefusedCall ==
    /\ engine \in {"open", "closed"}
    /\ returned = NoReturn
    /\ \E m \in DOMAIN Refused : returned' = [op |-> m, result |-> Refused[m]]
    /\ UNCHANGED <<trader_key, buffer_interval, engine, queue, pc, buffer, elapsed,
                   store, calls, submitted, applied, errors>>

\* scan_keys(con, format!("{collection}*")): the keys that start with the
\* collection name (the pattern holds no trader key), or a transport error
scan_keys(s, collection) == {k \in DOMAIN s : k[1] = collection[1]}

\* key.as_str().rsplit(':').next(): what follows the last delimiter
LastSegment(key) == IF key[Len(key)] = REDIS_DELIMITER THEN "" ELSE key[Len(key)]

\* Ustr::from, AccountId::from, ClientOrderId::from, PositionId::from
From(code) == Ok(code)

\* InstrumentId::from_str: <symbol>.<venue>
InstrumentIds == {"AUD/USD.SIM"}
from_str(code) ==
    IF code \in InstrumentIds THEN Ok(code) ELSE Err("Invalid instrument ID")

\* The per-entity loads of the adapter
load_currency(code) == Todo
load_instrument(instrument_id) == Todo
load_synthetic(instrument_id) == Todo
load_account(account_id) == Todo
load_order(client_order_id) == Todo
load_position(position_id) == Todo

\* The async block mapped over one scanned key, from the identifier parsed
\* and what the per-entity load of a parsed identifier ends with:
\* Some((id, value)), None, or the panic of the per-entity load
Dropped == [dropped |-> TRUE]

Entry(id, loaded) ==
    IF ~id.ok THEN Dropped
    ELSE IF "panic" \in DOMAIN loaded THEN loaded
    ELSE IF "some" \in DOMAIN loaded THEN [id |-> id.v, some |-> loaded.some]
    ELSE Dropped

\* join_all(futures) and extend(...flatten()): the mapping, or the panic
Collect(entries) ==
    LET found == {e \in entries : "some" \in DOMAIN e}
    IN  IF \E e \in entries : "panic" \in DOMAIN e THEN Todo
        ELSE [map |-> [id \in {e.id : e \in found} |->
                          (CHOOSE e \in found : e.id = id).some]]

\* A loader: the results it can end with, the scan failing or not
Loader(entries) == {Bail("scan")} \cup {Collect(entries)}

load_currencies(s) ==
    Loader({Entry(From(LastSegment(k)), load_currency(LastSegment(k))) :
               k \in scan_keys(s, CURRENCIES)})
load_instruments(s) ==
    Loader({Entry(from_str(LastSegment(k)), load_instrument(LastSegment(k))) :
               k \in scan_keys(s, INSTRUMENTS)})
load_synthetics(s) ==
    Loader({Entry(from_str(LastSegment(k)), load_synthetic(LastSegment(k))) :
               k \in scan_keys(s, SYNTHETICS)})
load_accounts(s) ==
    Loader({Entry(From(LastSegment(k)), load_account(LastSegment(k))) :
               k \in scan_keys(s, ACCOUNTS)})
load_orders(s) ==
    Loader({Entry(From(LastSegment(k)), load_order(LastSegment(k))) :
               k \in scan_keys(s, ORDERS)})
load_positions(s) ==
    Loader({Entry(From(LastSegment(k)), load_position(LastSegment(k))) :
               k \in scan_keys(s, POSITIONS)})

Loaders(s) ==
    [load_currencies |-> load_currencies(s), load_instruments |-> load_instruments(s),
     load_synthetics |-> load_synthetics(s), load_accounts |-> load_accounts(s),
     load_orders |-> load_orders(s), load_positions |-> load_positions(s)]

\* A call of one loader
LoaderCall ==
    /\ engine \in {"open", "closed"}
    /\ returned = NoReturn
    /\ \E m \in DOMAIN Loaders(store) : \E r \in Loaders(store)[m] :
          returned' = [op |-> m, result |-> r]
    /\ UNCHANGED <<trader_key, buffer_interval, engine, queue, pc, buffer, elapsed,
                   store, calls, submitted, applied, errors>>

\* try_join!(...).map_err(...): Ok of the six mappings when every loader
\* returned Ok; the one aggregated error as soon as a loader returns Err; the
\* panic of a loader that panics when polled (whichever comes first)
try_join(f) ==
    LET failed == \E m \in DOMAIN f : "error" \in DOMAIN f[m]
        panicked == \E m \in DOMAIN f : "panic" \in DOMAIN f[m]
    IN  IF ~failed /\ ~panicked
           THEN {[cache_map |-> [currencies |-> f.load_currencies.map,
                                 instruments |-> f.load_instruments.map,
                                 synthetics |-> f.load_synthetics.map,
                                 accounts |-> f.load_accounts.map,
                                 orders |-> f.load_orders.map,
                                 positions |-> f.load_positions.map]]}
           ELSE (IF failed THEN {Bail("Error loading cache data")} ELSE {})
                   \cup (IF panicked THEN {Todo} ELSE {})

\* load_all on store s: what each loader ended with, and the result
load_all(s) ==
    LET L == Loaders(s)
        ends == {f \in [DOMAIN L -> UNION {L[m] : m \in DOMAIN L}] :
                    \A m \in DOMAIN L : f[m] \in L[m]}
    IN  UNION {{[op |-> "load_all", loaders |-> f, result |-> r] : r \in try_join(f)} :
                  f \in ends}

\* A call of load_all
LoadAllCall ==
    /\ engine \in {"open", "closed"}
    /\ returned = NoReturn
    /\ \E r \in load_all(store) : returned' = r
    /\ UNCHANGED <<trader_key, buffer_interval, engine, queue, pc, buffer, elapsed,
                   store, calls, submitted, applied, errors>>

----------------------------------------------------------------------------
(* Adapter specification: the database may hold keys of other writers when  *)
(* the engine is constructed; one producer call, and one adapter call at    *)
(* any moment                                                               *)

K_CURRENCY_OTHER == <<"currencies", ":", "USD">>
K_INSTRUMENT_OTHER == <<"instruments", ":", "AUD/USD.SIM">>
K_INSTRUMENT_MALFORMED == <<"instruments", ":", "malformed">>

\* What the database holds at construction
OtherStores ==
    { <<>>,
      Put(<<>>, K_INSTRUMENT_MALFORMED, StringVal("i")),
      Put(<<>>, K_CURRENCY_OTHER, StringVal("c")),
      Put(Put(<<>>, K_INSTRUMENT_MALFORMED, StringVal("i")),
          K_INSTRUMENT_OTHER, StringVal("j")) }

AdapterInit ==
    /\ \E use_trader_prefix \in BOOLEAN, use_instance_id \in BOOLEAN :
          trader_key = get_trader_key(TRADER_ID, INSTANCE_ID,
                                      use_trader_prefix, use_instance_id)
    /\ buffer_interval \in {0, MaxInterval}
    /\ engine = "open"
    /\ queue = <<>>
    /\ pc = "loop"
    /\ buffer = <<>>
    /\ elapsed = 0
    /\ store \in OtherStores
    /\ calls = <<>>
    /\ submitted = <<>>
    /\ applied = <<>>
    /\ errors = {}
    /\ returned = NoReturn

\* The one call the producer of AdapterSpec makes
AdapterCalls ==
    { Call("Insert", K_CURRENCY, Some(<<"x">>)),
      Call("Insert", K_ORDER, Some(<<"e1">>)) }

AdapterFirstCall ==
    /\ calls = <<>>
    /\ \E c \in AdapterCalls : Insert(c.key, c.payload)

AdapterNext ==
    AdapterFirstCall \/ RefusedCall \/ LoaderCall \/ LoadAllCall \/ CloseCall
        \/ CloseReturn \/ Drop \/ Worker \/ Tick

AdapterSpec == AdapterInit /\ [][AdapterNext]_vars

----------------------------------------------------------------------------
(* C18: each of the thirteen market-data and snapshot-loading methods       *)
(* returns an error, whatever state the engine is in, and the call leaves   *)
(* the channel, the worker, the store and the engine as they were.          *)
RefusedMethods ==
    {"add_order_book", "add_quote", "load_quotes", "add_trade", "load_trades",
     "add_bar", "load_bars", "add_signal", "load_signals", "add_custom_data",
     "load_custom_data", "load_order_snapshot", "load_position_snapshot"}

C18_RefusedStep ==
    (returned' # returned /\ returned'.op \in RefusedMethods) =>
        /\ "error" \in DOMAIN returned'.result
        /\ UNCHANGED <<engine, queue, pc, buffer, store, calls, submitted, applied>>

C18_Refused ==
    /\ [](RefusedMethods = DOMAIN Refused)
    /\ [](returned.op \in RefusedMethods => "error" \in DOMAIN returned.result)
    /\ [][C18_RefusedStep]_vars

\* add_signal was refused while a command waited in the channel
C18_Witness ==
    /\ returned.op = "add_signal"
    /\ "error" \in DOMAIN returned.result
    /\ queue # <<>>
    /\ calls # <<>>

----------------------------------------------------------------------------
(* C19: load_all returns Ok exactly when all six loaders returned Ok, and   *)
(* then with the six mappings they returned; when a loader did not return   *)
(* Ok it returns the one error "Error loading cache data".                  *)
C19_LoadAll ==
    returned.op = "load_all" =>
        LET f == returned.loaders
            r == returned.result
            all_ok == \A m \in DOMAIN f : "map" \in DOMAIN f[m]
        IN  /\ DOMAIN f = {"load_currencies", "load_instruments", "load_synthetics",
                           "load_accounts", "load_orders", "load_positions"}
            /\ all_ok =>
                  r = [cache_map |-> [currencies |-> f.load_currencies.map,
                                      instruments |-> f.load_instruments.map,
                                      synthetics |-> f.load_synthetics.map,
                                      accounts |-> f.load_accounts.map,
                                      orders |-> f.load_orders.map,
                                      positions |-> f.load_positions.map]]
            /\ ~all_ok => r = [error |-> "Error loading cache data"]

----------------------------------------------------------------------------
(* C20: a loader whose scan succeeded returns Ok with the mapping of        *)
(* exactly the identifiers (what follows the last delimiter of a scanned    *)
(* key) that parse and whose per-entity load succeeded, each mapped to the  *)
(* loaded value; every other scanned key is dropped.                        *)
LoaderNames ==
    {"load_currencies", "load_instruments", "load_synthetics", "load_accounts",
     "load_orders", "load_positions"}

Scanned(m) ==
    CASE m = "load_currencies" -> "currencies"
      [] m = "load_instruments" -> "instruments"
      [] m = "load_synthetics" -> "synthetics"
      [] m = "load_accounts" -> "accounts"
      [] m = "load_orders" -> "orders"
      [] m = "load_positions" -> "positions"

Parses(m, code) ==
    m \in {"load_instruments", "load_synthetics"} => code \in InstrumentIds

PerEntity(m, id) ==
    CASE m = "load_currencies" -> load_currency(id)
      [] m = "load_instruments" -> load_instrument(id)
      [] m = "load_synthetics" -> load_synthetic(id)
      [] m = "load_accounts" -> load_account(id)
      [] m = "load_orders" -> load_order(id)
      [] m = "load_positions" -> load_position(id)

C20_LoaderStep ==
    (returned' # returned /\ returned'.op \in LoaderNames
         /\ "error" \notin DOMAIN returned'.result) =>
        LET m == returned'.op
            r == returned'.result
            ids == {LastSegment(k) : k \in {x \in DOMAIN store : x[1] = Scanned(m)}}
            succeeded == {id \in ids : Parses(m, id) /\ "some" \in DOMAIN PerEntity(m, id)}
        IN  /\ "map" \in DOMAIN r
            /\ DOMAIN r.map = succeeded
            /\ \A id \in succeeded : r.map[id] = PerEntity(m, id).some

C20_LoaderMapping == [][C20_LoaderStep]_vars

----------------------------------------------------------------------------
(* Key codec specification: the three codec functions applied to bounded   *)
(* inputs; each call leaves the engine alone and records its result.        *)

MaxKeyLen == 3

\* The pieces a key handed to the codec is made of
Tokens == {REDIS_DELIMITER, "index", "123"}

RECURSIVE KeysOfLen(_)
KeysOfLen(n) ==
    IF n = 0 THEN {<<>>}
    ELSE {Append(k, t) : k \in KeysOfLen(n - 1), t \in Tokens}

CodecKeys == UNION {KeysOfLen(n) : n \in 0..MaxKeyLen}

TraderIds == {TRADER_ID, "tester-123"}
InstanceIds == {INSTANCE_ID, "uuid4-other"}

GetTraderKey ==
    /\ \E trader_id \in TraderIds, instance_id \in InstanceIds,
          use_trader_prefix \in BOOLEAN, use_instance_id \in BOOLEAN :
          returned' = [op |-> "get_trader_key",
                       trader_id |-> trader_id, instance_id |-> instance_id,
                       use_trader_prefix |-> use_trader_prefix,
                       use_instance_id |-> use_instance_id,
                       result |-> get_trader_key(trader_id, instance_id,
                                                 use_trader_prefix, use_instance_id)]
    /\ UNCHANGED <<trader_key, buffer_interval, engine, queue, pc, buffer, elapsed,
                   store, calls, submitted, applied, errors>>

GetCollectionKey ==
    /\ \E key \in CodecKeys :
          returned' = [op |-> "get_collection_key", key |-> key,
                       result |-> get_collection_key(key)]
    /\ UNCHANGED <<trader_key, buffer_interval, engine, queue, pc, buffer, elapsed,
                   store, calls, submitted, applied, errors>>

GetIndexKey ==
    /\ \E key \in CodecKeys :
          returned' = [op |-> "get_index_key", key |-> key,
                       result |-> get_index_key(key)]
    /\ UNCHANGED <<trader_key, buffer_interval, engine, queue, pc, buffer, elapsed,
                   store, calls, submitted, applied, errors>>

CodecNext == GetTraderKey \/ GetCollectionKey \/ GetIndexKey

CodecSpec == Init /\ [][CodecNext]_vars

StartsWith(seq, prefix) ==
    Len(prefix) <= Len(seq) /\ SubSeq(seq, 1, Len(prefix)) = prefix

EndsWith(seq, suffix) ==
    Len(suffix) <= Len(seq)
        /\ SubSeq(seq, Len(seq) - Len(suffix) + 1, Len(seq)) = suffix

HasDelimiter(key) == \E i \in 1..Len(key) : key[i] = REDIS_DELIMITER

\* C21: for a key that holds a ':', get_collection_key returns what stands
\* before the first ':' and get_index_key what stands after it, so that
\* collection + ':' + tail is the key again; for a key without ':' both
\* return the InvalidKey error.
C21_KeyCodec ==
    returned.op \in {"get_collection_key", "get_index_key"} =>
        LET key == returned.key
            r == returned.result
        IN  IF HasDelimiter(key)
            THEN /\ r.ok
                 /\ returned.op = "get_collection_key" =>
                       /\ ~HasDelimiter(r.v)
                       /\ StartsWith(key, r.v \o <<REDIS_DELIMITER>>)
                       /\ get_index_key(key).ok
                       /\ r.v \o <<REDIS_DELIMITER>> \o get_index_key(key).v = key
                 /\ returned.op = "get_index_key" =>
                       /\ EndsWith(key, <<REDIS_DELIMITER>> \o r.v)
                       /\ ~HasDelimiter(SubSeq(key, 1, Len(key) - Len(r.v) - 1))
                       /\ get_collection_key(key).ok
                       /\ get_collection_key(key).v \o <<REDIS_DELIMITER>> \o r.v = key
            ELSE ~r.ok /\ r.v = "InvalidKey"

\* get_index_key was applied to a key with two delimiters: the tail keeps the second
C21_Witness ==
    /\ returned.op = "get_index_key"
    /\ returned.key = <<"index", REDIS_DELIMITER, REDIS_DELIMITER>>
    /\ returned.result.ok
    /\ returned.result.v = <<REDIS_DELIMITER>>

\* C22: get_trader_key returns [trader-]<trader_id>[:<instance_id>]: the result
\* starts with "trader-" followed by the trader id exactly when
\* use_trader_prefix is set, and ends with ':' followed by the instance id
\* exactly when use_instance_id is set.
C22_TraderKey ==
    returned.op = "get_trader_key" =>
        LET k == returned.result
            p == IF returned.use_trader_prefix THEN 1 ELSE 0
            i == IF returned.use_instance_id THEN 2 ELSE 0
        IN  /\ StartsWith(k, <<"trader-", returned.trader_id>>)
                  <=> returned.use_trader_prefix
            /\ EndsWith(k, <<REDIS_DELIMITER, returned.instance_id>>)
                  <=> returned.use_instance_id
            /\ Len(k) = p + 1 + i
            /\ k[p + 1] = returned.trader_id

\* The configuration of the unit test: prefix and instance id both in the key
C22_Witness ==
    /\ returned.op = "get_trader_key"
    /\ returned.use_trader_prefix
    /\ returned.use_instance_id
    /\ returned.result = <<"trader-", "tester-123", REDIS_DELIMITER, returned.instance_id>>

----------------------------------------------------------------------------
(* Repeat specification: the producer inserts members into set-index keys, *)
(* the same member more than once included                                  *)

RepeatCalls ==
    { Call("Insert", INDEX_ORDERS, Some(<<"O-1">>)),
      Call("Insert", INDEX_ORDERS, Some(<<"O-2">>)),
      Call("Insert", INDEX_ORDERS_OPEN, Some(<<"O-1">>)) }

RepeatProducer ==
    /\ Len(calls) < MaxCalls
    /\ \E c \in RepeatCalls : Insert(c.key, c.payload)

RepeatNext == RepeatProducer \/ CloseCall \/ CloseReturn \/ Drop \/ Worker \/ Tick

RepeatSpec == Init /\ [][RepeatNext]_vars

\* The members the calls made so far inserted on a key
MembersOn(key) ==
    {calls[id].payload[1][1] : id \in {i \in 1..Len(calls) : calls[i].key = key}}

\* Every call was accepted and drained, and every submission succeeded
AllFlushed ==
    /\ \A id \in 1..Len(calls) : calls[id].result = "Ok" /\ Handled(id)
    /\ \A i \in 1..Len(submitted) : submitted[i].result = "Ok"

\* C23: inserting the same member into the same set-index more than once, in
\* one flush or in several, leaves the set as one insert leaves it: after all
\* flushes the set holds each inserted member exactly once.
C23_SetInsertIdempotent ==
    AllFlushed =>
        \A i, j \in 1..Len(calls) :
            i < j /\ calls[i].key = calls[j].key /\ calls[i].payload = calls[j].payload =>
                LET k == Qualified(calls[i].key)
                IN  /\ k \in DOMAIN store
                    /\ store[k].t = "set"
                    /\ calls[i].payload[1][1] \in store[k].v
                    /\ Cardinality(store[k].v) = Cardinality(MembersOn(calls[i].key))

----------------------------------------------------------------------------
(* Wire parser (tardis/machine/parse.rs): pure functions from a typed       *)
(* inbound message to a normalized record. A message is a record whose      *)
(* field `type` is the tag of its WsMessage variant; a DateTime<Utc> is     *)
(* its seconds since the epoch and the nanoseconds within the second.       *)

MaxLevels == 2

\* RecordFlag::F_LAST.value() and RecordFlag::F_SNAPSHOT.value(): bits of a u8
F_LAST == 128
F_SNAPSHOT == 32

\* DateTime::timestamp_nanos_opt, for the instants an i64 of nanoseconds holds
timestamp_nanos_opt(dt) == Some(dt.secs * 1000000000 + dt.nanos)

\* UnixNanos::from(n as u64), n >= 0
UnixNanos(n) == [nanos |-> n]

\* serde_json::to_string(&exchange).unwrap(): the name between two quotes
exchange_to_string(exchange) == <<"\"", exchange, "\"">>

\* str::trim_matches(ch)
RECURSIVE trim_matches(_, _)
trim_matches(str, ch) ==
    IF str = <<>> THEN str
    ELSE IF Head(str) = ch THEN trim_matches(Tail(str), ch)
    ELSE IF str[Len(str)] = ch THEN trim_matches(SubSeq(str, 1, Len(str) - 1), ch)
    ELSE str

\* serde_json::to_string(&exchange).unwrap().trim_matches('"').to_string()
ExchangeStr(exchange) == trim_matches(exchange_to_string(exchange), "\"")

\* parse_instrument_id(exchange, symbol)
parse_instrument_id(exchange, symbol) == [symbol |-> symbol, venue |-> exchange]

\* parse_book_action(is_snapshot, amount)
parse_book_action(is_snapshot, amount) ==
    IF is_snapshot THEN "Add" ELSE IF amount = 0 THEN "Delete" ELSE "Update"

\* parse_aggressor_side(side)
parse_aggressor_side(side) ==
    IF side = "buy" THEN "Buyer" ELSE IF side = "sell" THEN "Seller" ELSE "NoAggressor"

\* parse_bar_spec(name)
parse_bar_spec(name) == [spec |-> name]

Price(value, precision) == [value |-> value, precision |-> precision]
Quantity(value, precision) == [value |-> value, precision |-> precision]

BookOrder(side, price, size, order_id) ==
    [side |-> side, price |-> price, size |-> size, order_id |-> order_id]

OrderBookDelta(instrument_id, action, order, flags, sequence, ts_event, ts_init) ==
    [instrument_id |-> instrument_id, action |-> action, order |-> order,
     flags |-> flags, sequence |-> sequence, ts_event |-> ts_event, ts_init |-> ts_init]

\* OrderBookDeltas_API::new(OrderBookDeltas::new(instrument_id, deltas))
OrderBookDeltas_API(instrument_id, deltas) ==
    [instrument_id |-> instrument_id, deltas |-> deltas]

TradeTick(instrument_id, price, size, aggressor_side, trade_id, ts_event, ts_init) ==
    [instrument_id |-> instrument_id, price |-> price, size |-> size,
     aggressor_side |-> aggressor_side, trade_id |-> trade_id,
     ts_event |-> ts_event, ts_init |-> ts_init]

BarType(instrument_id, spec, aggregation_source) ==
    [instrument_id |-> instrument_id, spec |-> spec,
     aggregation_source |-> aggregation_source]

\* Bar::new(..).unwrap()
Bar(bar_type, open, high, low, close, volume, ts_event, ts_init) ==
    [bar_type |-> bar_type, open |-> open, high |-> high, low |-> low,
     close |-> close, volume |-> volume, ts_event |-> ts_event, ts_init |-> ts_init]

parse_book_level(instrument_id, price_precision, size_precision, side, level, is_snapshot, ts_event, ts_init) ==
    LET action == parse_book_action(is_snapshot, level.amount)
        price == Price(level.price, price_precision)
        size == Quantity(level.amount, size_precision)
        order_id == 0
        order == BookOrder(side, price, size, order_id)
        flags == IF is_snapshot THEN F_SNAPSHOT ELSE 0
        sequence == 0
    IN  OrderBookDelta(instrument_id, action, order, flags, sequence, ts_event, ts_init)

\* Mutant of parse_book_msg: the asks are pushed before the bids
parse_book_msg_asks_first(bids, asks, is_snapshot, price_precision, size_precision, instrument_id, timestamp, local_timestamp) ==
    LET ts_event == UnixNanos(Unwrap(timestamp_nanos_opt(timestamp)))
        ts_init == UnixNanos(Unwrap(timestamp_nanos_opt(local_timestamp)))
        pushed ==
            [i \in 1..Len(asks) |->
                parse_book_level(instrument_id, price_precision, size_precision, "Sell",
                                 asks[i], is_snapshot, ts_event, ts_init)]
            \o [i \in 1..Len(bids) |->
                parse_book_level(instrument_id, price_precision, size_precision, "Buy",
                                 bids[i], is_snapshot, ts_event, ts_init)]
        n == Len(pushed)
        deltas ==
            IF n = 0 THEN pushed
            ELSE [pushed EXCEPT ![n].flags = (pushed[n].flags + F_LAST) % 256]
    IN  OrderBookDeltas_API(instrument_id, deltas)

\* parse_book_msg: one delta per bid, then one per ask; F_LAST is added to the
\* flags of the last delta when there is one
parse_book_msg(bids, asks, is_snapshot, price_precision, size_precision, instrument_id, timestamp, local_timestamp) ==
    LET ts_event == UnixNanos(Unwrap(timestamp_nanos_opt(timestamp)))
        ts_init == UnixNanos(Unwrap(timestamp_nanos_opt(local_timestamp)))
        pushed ==
            [i \in 1..Len(bids) |->
                parse_book_level(instrument_id, price_precision, size_precision, "Buy",
                                 bids[i], is_snapshot, ts_event, ts_init)]
            \o [i \in 1..Len(asks) |->
                parse_book_level(instrument_id, price_precision, size_precision, "Sell",
                                 asks[i], is_snapshot, ts_event, ts_init)]
        n == Len(pushed)
        deltas ==
            IF n = 0 THEN pushed
            ELSE [pushed EXCEPT ![n].flags = (pushed[n].flags + F_LAST) % 256]
    IN  OrderBookDeltas_API(instrument_id, deltas)

\* The instrument id given, or the one parsed from the message
InstrumentIdOf(msg, instrument_id) ==
    IF IsSome(instrument_id) THEN Unwrap(instrument_id)
    ELSE parse_instrument_id(ExchangeStr(msg.exchange), msg.symbol)

parse_book_change_msg(msg, price_precision, size_precision, instrument_id) ==
    parse_book_msg(msg.bids, msg.asks, msg.is_snapshot, price_precision, size_precision,
                   InstrumentIdOf(msg, instrument_id), msg.timestamp, msg.local_timestamp)

parse_book_snapshot_msg(msg, price_precision, size_precision, instrument_id) ==
    parse_book_msg(msg.bids, msg.asks, TRUE, price_precision, size_precision,
                   InstrumentIdOf(msg, instrument_id), msg.timestamp, msg.local_timestamp)

\* Uuid::new_v4().to_string(): any of the ids the generator can give
NewUuids == {"uuid-1", "uuid-2"}

\* parse_trade_msg: the set of ticks it can return (the trade id is generated
\* when the message has none)
parse_trade_msg(msg, price_precision, size_precision, instrument_id) ==
    LET price == Price(msg.price, price_precision)
        size == Quantity(msg.amount, size_precision)
        aggressor_side == parse_aggressor_side(msg.side)
        ts_event == UnixNanos(Unwrap(timestamp_nanos_opt(msg.timestamp)))
        ts_init == UnixNanos(Unwrap(timestamp_nanos_opt(msg.local_timestamp)))
    IN  {TradeTick(InstrumentIdOf(msg, instrument_id), price, size, aggressor_side,
                   trade_id, ts_event, ts_init) :
            trade_id \in (IF IsSome(msg.id) THEN {Unwrap(msg.id)} ELSE NewUuids)}

parse_bar_msg(msg, price_precision, size_precision, instrument_id) ==
    LET spec == parse_bar_spec(msg.name)
        bar_type == BarType(InstrumentIdOf(msg, instrument_id), spec, "External")
        open == Price(msg.open, price_precision)
        high == Price(msg.high, price_precision)
        low == Price(msg.low, price_precision)
        close == Price(msg.close, price_precision)
        volume == Quantity(msg.volume, size_precision)
        ts_event == UnixNanos(Unwrap(timestamp_nanos_opt(msg.timestamp)))
        ts_init == UnixNanos(Unwrap(timestamp_nanos_opt(msg.local_timestamp)))
    IN  Bar(bar_type, open, high, low, close, volume, ts_event, ts_init)

\* The variants of Data the parser builds
DataDeltas(d) == [Deltas |-> d]
DataTrade(t) == [Trade |-> t]
DataBar(b) == [Bar |-> b]

\* Mutant of parse_tardis_ws_message: a derivative ticker is parsed like a trade
parse_tardis_ws_message_ticker_as_trade(msg, price_precision, size_precision) ==
    CASE msg.type = "book_change" ->
            {Some(DataDeltas(parse_book_change_msg(msg, price_precision, size_precision, None)))}
      [] msg.type = "book_snapshot" ->
            {Some(DataDeltas(parse_book_snapshot_msg(msg, price_precision, size_precision, None)))}
      [] msg.type = "trade" ->
            {Some(DataTrade(t)) :
                t \in parse_trade_msg(msg, price_precision, size_precision, None)}
      [] msg.type = "bar" ->
            {Some(DataBar(parse_bar_msg(msg, price_precision, size_precision, None)))}
      [] msg.type = "derivative_ticker" ->
            {Some(DataTrade(TradeTick(parse_instrument_id(ExchangeStr(msg.exchange), msg.symbol),
                                      Price(0, price_precision), Quantity(0, size_precision),
                                      "NoAggressor", "uuid-1", UnixNanos(0), UnixNanos(0))))}
      [] msg.type = "disconnect" -> {None}

\* parse_tardis_ws_message: the set of Option<Data> it can return
parse_tardis_ws_message(msg, price_precision, size_precision) ==
    CASE msg.type = "book_change" ->
            {Some(DataDeltas(parse_book_change_msg(msg, price_precision, size_precision, None)))}
      [] msg.type = "book_snapshot" ->
            {Some(DataDeltas(parse_book_snapshot_msg(msg, price_precision, size_precision, None)))}
      [] msg.type = "trade" ->
            {Some(DataTrade(t)) :
                t \in parse_trade_msg(msg, price_precision, size_precision, None)}
      [] msg.type = "bar" ->
            {Some(DataBar(parse_bar_msg(msg, price_precision, size_precision, None)))}
      [] msg.type = "derivative_ticker" -> {None}
      [] msg.type = "disconnect" -> {None}

----------------------------------------------------------------------------
(* Parser specification: one call of a parser function on a message drawn   *)
(* from bounded sets; the call leaves the engine alone and records what it  *)
(* was given and what it returned.                                          *)

Levels == {[price |-> 7985, amount |-> 283318], [price |-> 7633, amount |-> 0]}

RECURSIVE LevelsOfLen(_)
LevelsOfLen(n) ==
    IF n = 0 THEN {<<>>}
    ELSE {Append(ls, l) : ls \in LevelsOfLen(n - 1), l \in Levels}

\* Vec<BookLevel> of at most MaxLevels levels
LevelVecs == UNION {LevelsOfLen(n) : n \in 0..MaxLevels}

DateTimes == {[secs |-> 1, nanos |-> 469000000], [secs |-> 2, nanos |-> 0]}

Precisions == {0, 1}

BookChangeMsgs ==
    [type : {"book_change"}, exchange : {"bitmex"}, symbol : {"XBTUSD"},
     bids : LevelVecs, asks : LevelVecs, is_snapshot : BOOLEAN,
     timestamp : DateTimes, local_timestamp : DateTimes]

BookSnapshotMsgs ==
    [type : {"book_snapshot"}, exchange : {"bitmex"}, symbol : {"XBTUSD"},
     bids : LevelVecs, asks : LevelVecs,
     timestamp : DateTimes, local_timestamp : DateTimes]

TradeMsgs ==
    [type : {"trade"}, exchange : {"bitmex"}, symbol : {"XBTUSD"},
     price : {7996}, amount : {50}, side : {"buy", "sell", "unknown"},
     id : {None, Some("T-1")},
     timestamp : DateTimes, local_timestamp : DateTimes]

BarMsgs ==
    [type : {"bar"}, exchange : {"bitmex"}, symbol : {"XBTUSD"},
     name : {"trade_bar_10000ms"},
     open : {7623}, high : {7623, 7624}, low : {7622}, close : {7623}, volume : {37034},
     timestamp : DateTimes, local_timestamp : DateTimes]

DerivativeTickerMsgs ==
    [type : {"derivative_ticker"}, exchange : {"bitmex"}, symbol : {"XBTUSD"},
     timestamp : DateTimes, local_timestamp : DateTimes]

DisconnectMsgs ==
    [type : {"disconnect"}, exchange : {"bitmex"}, local_timestamp : DateTimes]

WsMessages ==
    BookChangeMsgs \cup BookSnapshotMsgs \cup TradeMsgs \cup BarMsgs
        \cup DerivativeTickerMsgs \cup DisconnectMsgs

\* instrument_id: Option<InstrumentId>
InstrumentIdOptions == {None, Some([symbol |-> "ETHUSD", venue |-> "deribit"])}

ParseTardisWsMessage ==
    /\ returned = NoReturn
    /\ \E msg \in WsMessages, price_precision \in Precisions, size_precision \in Precisions :
          \E result \in parse_tardis_ws_message(msg, price_precision, size_precision) :
              returned' = [op |-> "parse_tardis_ws_message", msg |-> msg,
                           price_precision |-> price_precision,
                           size_precision |-> size_precision,
                           result |-> result]
    /\ UNCHANGED <<trader_key, buffer_interval, engine, queue, pc, buffer, elapsed,
                   store, calls, submitted, applied, errors>>

ParseBookChangeMsg ==
    /\ returned = NoReturn
    /\ \E msg \in BookChangeMsgs, price_precision \in Precisions,
          size_precision \in Precisions, instrument_id \in InstrumentIdOptions :
          returned' = [op |-> "parse_book_change_msg", msg |-> msg,
                       price_precision |-> price_precision,
                       size_precision |-> size_precision,
                       instrument_id |-> instrument_id,
                       result |-> parse_book_change_msg(msg, price_precision,
                                                        size_precision, instrument_id)]
    /\ UNCHANGED <<trader_key, buffer_interval, engine, queue, pc, buffer, elapsed,
                   store, calls, submitted, applied, errors>>

ParseBookSnapshotMsg ==
    /\ returned = NoReturn
    /\ \E msg \in BookSnapshotMsgs, price_precision \in Precisions,
          size_precision \in Precisions, instrument_id \in InstrumentIdOptions :
          returned' = [op |-> "parse_book_snapshot_msg", msg |-> msg,
                       price_precision |-> price_precision,
                       size_precision |-> size_precision,
                       instrument_id |-> instrument_id,
                       result |-> parse_book_snapshot_msg(msg, price_precision,
                                                          size_precision, instrument_id)]
    /\ UNCHANGED <<trader_key, buffer_interval, engine, queue, pc, buffer, elapsed,
                   store, calls, submitted, applied, errors>>

ParserNext == ParseTardisWsMessage \/ ParseBookChangeMsg \/ ParseBookSnapshotMsg

ParserSpec == Init /\ [][ParserNext]_vars

\* A book message was parsed, by the dispatcher or by a direct call
BookParsed ==
    /\ returned.op \in {"parse_tardis_ws_message", "parse_book_change_msg",
                        "parse_book_snapshot_msg"}
    /\ returned.msg.type \in {"book_change", "book_snapshot"}

\* The deltas of the batch the parsed book message gave
ParsedDeltas ==
    IF returned.op = "parse_tardis_ws_message"
    THEN returned.result[1].Deltas.deltas
    ELSE returned.result.deltas

\* The message parsed was a snapshot: a book_snapshot, or a book_change with
\* is_snapshot set
SnapshotParsed ==
    /\ BookParsed
    /\ returned.msg.type = "book_change" => returned.msg.is_snapshot

HasFlag(flags, flag) == (flags \div flag) % 2 = 1

\* C24: parse_tardis_ws_message returns None for every derivative_ticker and
\* disconnect message, and Some record for every other message: Deltas for
\* book_change and book_snapshot, Trade for trade, Bar for bar.
C24_MessageKinds ==
    returned.op = "parse_tardis_ws_message" =>
        LET type == returned.msg.type
            r == returned.result
        IN  /\ type \in {"derivative_ticker", "disconnect"} => r = None
            /\ type \in {"book_change", "book_snapshot"} =>
                  IsSome(r) /\ DOMAIN Unwrap(r) = {"Deltas"}
            /\ type = "trade" => IsSome(r) /\ DOMAIN Unwrap(r) = {"Trade"}
            /\ type = "bar" => IsSome(r) /\ DOMAIN Unwrap(r) = {"Bar"}

\* A derivative ticker was handed to the parser, which returned no record
C24_Witness ==
    /\ returned.op = "parse_tardis_ws_message"
    /\ returned.msg.type = "derivative_ticker"
    /\ returned.result = None

\* C25: for every snapshot book message (a book_snapshot, or a book_change
\* with is_snapshot set), whatever the number of bid and ask levels, every
\* emitted delta carries the SNAPSHOT flag and exactly one delta, the last of
\* the batch, carries the LAST flag.
C25_SnapshotFlags ==
    SnapshotParsed =>
        LET deltas == ParsedDeltas
        IN  /\ \A i \in 1..Len(deltas) : HasFlag(deltas[i].flags, F_SNAPSHOT)
            /\ {i \in 1..Len(deltas) : HasFlag(deltas[i].flags, F_LAST)} = {Len(deltas)}

\* C26: for every book_change message with is_snapshot unset, whatever the
\* number of bid and ask levels, no emitted delta carries the SNAPSHOT flag
\* and exactly one delta carries the LAST flag.
C26_ChangeFlags ==
    BookParsed /\ ~SnapshotParsed =>
        LET deltas == ParsedDeltas
        IN  /\ \A i \in 1..Len(deltas) : ~HasFlag(deltas[i].flags, F_SNAPSHOT)
            /\ Cardinality({i \in 1..Len(deltas) : HasFlag(deltas[i].flags, F_LAST)}) = 1

\* The levels of the parsed message, bids before asks, each with its side
ParsedLevels ==
    [i \in 1..Len(returned.msg.bids) |-> [side |-> "Buy", level |-> returned.msg.bids[i]]]
        \o [i \in 1..Len(returned.msg.asks) |->
                [side |-> "Sell", level |-> returned.msg.asks[i]]]

\* C27: for every book message the batch holds exactly one delta per level
\* (|bids| + |asks| deltas), the deltas of the bids (side Buy) in input order
\* before the deltas of the asks (side Sell) in input order, and every delta
\* carries the same ts_event (the nanoseconds of timestamp), the same ts_init
\* (the nanoseconds of local_timestamp), order_id 0 and sequence 0.
C27_OneDeltaPerLevel ==
    BookParsed =>
        LET deltas == ParsedDeltas
            levels == ParsedLevels
            msg == returned.msg
        IN  /\ Len(deltas) = Len(msg.bids) + Len(msg.asks)
            /\ \A i \in 1..Len(deltas) :
                  /\ deltas[i].order.side = levels[i].side
                  /\ deltas[i].order.price.value = levels[i].level.price
                  /\ deltas[i].order.size.value = levels[i].level.amount
                  /\ deltas[i].ts_event.nanos
                        = msg.timestamp.secs * 1000000000 + msg.timestamp.nanos
                  /\ deltas[i].ts_init.nanos
                        = msg.local_timestamp.secs * 1000000000 + msg.local_timestamp.nanos
                  /\ deltas[i].order.order_id = 0
                  /\ deltas[i].sequence = 0

\* A message with two different bids and two different asks, whose timestamps
\* differ, was parsed into four deltas
C27_Witness ==
    /\ BookParsed
    /\ Len(returned.msg.bids) = 2 /\ returned.msg.bids[1] # returned.msg.bids[2]
    /\ Len(returned.msg.asks) = 2 /\ returned.msg.asks[1] # returned.msg.asks[2]
    /\ returned.msg.timestamp # returned.msg.local_timestamp
    /\ Len(ParsedDeltas) = 4
    /\ ParsedDeltas[2].order.side = "Buy" /\ ParsedDeltas[3].order.side = "Sell"

----------------------------------------------------------------------------
(* C28, C29: payloads too short for the primitive of an index command       *)

\* An Insert into a hash index with a payload of exactly one element
ShortHashInsert(c) ==
    /\ c.op = "Insert"
    /\ c.key \in HashIndexKeys
    /\ Len(c.payload) = 1 /\ Len(c.payload[1]) = 1

\* A Delete on a transition set-index that supplies no member: payload absent,
\* or present with zero elements
MemberlessDelete(c) ==
    /\ c.op = "Delete"
    /\ IndexKeyOf(c.key, TransitionTails)
    /\ ~HasPayload(c)

\* A command of a collection other than index that yields one store command
PlainWellFormed(c) == WellFormed(c) /\ c.key[1] # "index"

\* C28: an Insert into a hash index (index:order_position, index:order_client)
\* whose payload has exactly one element is logged and skipped: it adds no
\* HSET, the worker keeps running, and the other commands of the batch and
\* all later commands are still submitted.
C28_ShortHashInsertSkipped ==
    (\A id \in 1..Len(calls) : ~MemberlessDelete(calls[id])) =>
        /\ (\E id \in 1..Len(calls) : ShortHashInsert(calls[id])) => pc # "panicked"
        /\ \A id \in 1..Len(calls) :
              Handled(id) =>
                  /\ ShortHashInsert(calls[id]) => CmdsOf(id) = <<>> /\ id \in errors
                  /\ PlainWellFormed(calls[id]) => Len(CmdsOf(id)) = 1

\* C29: a Delete on a transition set-index that does not supply the member in
\* payload[0] (payload absent, or present with zero elements) is logged and
\* skipped: it adds no SREM, the worker keeps running, and the other commands
\* of the batch and all later commands are still submitted.
C29_MemberlessDeleteSkipped ==
    (\A id \in 1..Len(calls) : ~ShortHashInsert(calls[id])) =>
        /\ (\E id \in 1..Len(calls) : MemberlessDelete(calls[id])) => pc # "panicked"
        /\ \A id \in 1..Len(calls) :
              Handled(id) =>
                  /\ MemberlessDelete(calls[id]) => CmdsOf(id) = <<>> /\ id \in errors
                  /\ PlainWellFormed(calls[id]) => Len(CmdsOf(id)) = 1

----------------------------------------------------------------------------
(* C30: Update is append-only-if-exists. An Update on an accounts, orders   *)
(* or positions key for which no list exists in the store when it is        *)
(* applied creates no key and leaves the store as it was; an Update applied *)
(* after an Insert on the same key, in the same flush or a later one,       *)
(* appends payload[0] at the end of that list.                              *)

\* The list the drained calls 1..n leave on a key when each is applied in
\* order: an Insert appends, an Update appends only to a list that exists
RECURSIVE ListAfter(_, _)
ListAfter(key, n) ==
    IF n = 0 THEN <<>>
    ELSE LET before == ListAfter(key, n - 1)
             c == calls[n]
         IN  IF ~(Handled(n) /\ c.key = key /\ HasPayload(c)) THEN before
             ELSE IF c.op = "Insert" THEN Append(before, c.payload[1][1])
             ELSE IF c.op = "Update" /\ before # <<>> THEN Append(before, c.payload[1][1])
             ELSE before

UpdatedListKey(key) == Delimited(key) /\ Len(key) = 3 /\ key[1] \in UpdateNames

C30_Lists ==
    (\A i \in 1..Len(submitted) : submitted[i].result = "Ok") =>
        \A id \in 1..Len(calls) :
            LET key == calls[id].key
                k == Qualified(key)
                list == ListAfter(key, Len(calls))
            IN  UpdatedListKey(key) =>
                    IF list = <<>> THEN k \notin DOMAIN store
                    ELSE k \in DOMAIN store /\ store[k].t = "list" /\ store[k].v = list

\* A flush of Updates on list keys that are not in the store
C30_AbsentStep ==
    (pc \in {"loop", "final"} /\ buffer # <<>> /\ buffer' = <<>>
         /\ \A i \in 1..Len(buffer) :
               /\ buffer[i].op_type = "Update"
               /\ UpdatedListKey(buffer[i].key[1])
               /\ Qualified(buffer[i].key[1]) \notin DOMAIN store) =>
        store' = store /\ pc' # "panicked"

C30_UpdateOnlyIfExists == []C30_Lists /\ [][C30_AbsentStep]_vars

\* An Insert and an Update on the same orders key went out in one pipeline
\* and the list holds the inserted event followed by the updated one
C30_Witness ==
    /\ Len(calls) = 2
    /\ calls[1].op = "Insert" /\ calls[2].op = "Update"
    /\ calls[1].key = K_ORDER /\ calls[2].key = K_ORDER
    /\ Len(submitted) = 1 /\ submitted[1].msgs = <<1, 2>>
    /\ Qualified(K_ORDER) \in DOMAIN store
    /\ store[Qualified(K_ORDER)].v = <<calls[1].payload[1][1], calls[2].payload[1][1]>>

----------------------------------------------------------------------------
(* C31: every command the worker receives before Close or hang-up is handed *)
(* to exactly one flush: no command is in two flushes, none remains in the  *)
(* buffer when the worker returns, every flush leaves the buffer empty and  *)
(* no flush is started with an empty buffer.                                *)

\* The call was enqueued and the worker has taken it from the channel
Received(id) ==
    /\ calls[id].result = "Ok"
    /\ \A i \in 1..Len(queue) : queue[i].id # id

InBuffer(id) == \E i \in 1..Len(buffer) : buffer[i].id = id

Distinct(seq) == \A i, j \in 1..Len(seq) : i # j => seq[i] # seq[j]

C31_State ==
    /\ Distinct(SubmittedMsgs \o Ids(buffer))
    /\ \A i \in 1..Len(submitted) : submitted[i].msgs # <<>>
    /\ pc = "done" => buffer = <<>>
    /\ pc # "panicked" =>
          \A id \in 1..Len(calls) : Received(id) => (InBuffer(id) \/ Handled(id))

\* A step of drain_buffer: the whole buffer goes into this flush and no other
C31_FlushStep ==
    (Len(submitted') > Len(submitted) \/ (pc # "panicked" /\ pc' = "panicked")) =>
        /\ buffer # <<>>
        /\ buffer' = <<>>
        /\ \A i \in 1..Len(buffer) : ~Handled(buffer[i].id)
        /\ pc' # "panicked" =>
              /\ Len(submitted') = Len(submitted) + 1
              /\ Last(submitted').msgs = Ids(buffer)

C31_OneFlushEach == []C31_State /\ [][C31_FlushStep]_vars

\* Two commands went out in one flush and the worker has returned
C31_Witness ==
    /\ pc = "done"
    /\ Len(submitted) = 1
    /\ submitted[1].msgs = <<1, 2>>
    /\ buffer = <<>>

----------------------------------------------------------------------------
(* C32: with buffer_interval_ms = 0 every flush holds exactly one command:  *)
(* each received command is flushed in a pipeline of its own before the     *)
(* worker receives the next one, and the buffer is already empty when Close *)
(* or hang-up is observed, so the flush after the loop never runs.          *)
C32_State ==
    buffer_interval = 0 =>
        /\ \A i \in 1..Len(submitted) : Len(submitted[i].msgs) = 1
        /\ Len(buffer) <= 1
        /\ pc \in {"recv", "final", "done"} => buffer = <<>>

\* After the loop the worker returns without submitting anything
C32_FinalStep ==
    (buffer_interval = 0 /\ pc = "final" /\ pc' # pc) =>
        pc' = "done" /\ submitted' = submitted /\ store' = store

C32_FlushPerCommand == []C32_State /\ [][C32_FinalStep]_vars

\* With interval 0 two commands went out in two flushes and close() returned
C32_Witness ==
    /\ buffer_interval = 0
    /\ Len(submitted) = 2
    /\ submitted[1].msgs = <<1>> /\ submitted[2].msgs = <<2>>
    /\ pc = "done" /\ engine = "closed"

----------------------------------------------------------------------------
(* Close specification: close() may be called again after it has returned  *)

Unit == [unit |-> TRUE]

\* Polling a JoinHandle whose output was already taken
PolledAfterCompletion == [panic |-> "JoinHandle polled after completion"]

\* close() on an engine already closed: the Close send fails, as the receiver
\* went with the worker, and is only logged; block_on(&mut self.handle) then
\* polls the handle whose output the first close() consumed, which the Future
\* contract leaves open: the poll panics (as tokio's JoinHandle does) or
\* completes and close() returns
CloseAgain ==
    /\ engine = "closed"
    /\ queue' = IF Alive THEN Append(queue, CloseCommand) ELSE queue
    /\ \E result \in {PolledAfterCompletion, Unit} :
          returned' = [op |-> "close", sent |-> Alive, result |-> result]
    /\ UNCHANGED <<trader_key, buffer_interval, engine, pc, buffer, elapsed, store,
                   calls, submitted, applied, errors>>

CloseNext ==
    Producer \/ CloseCall \/ CloseReturn \/ CloseAgain \/ Drop \/ Worker \/ Tick

CloseSpec == Init /\ [][CloseNext]_vars

\* C33: for every sequence of insert, update, delete and close calls, every
\* command held in the buffer of the worker is an Insert, Update or Delete with
\* a key present, so drain_buffer reaches neither expect("Null command `key`")
\* nor panic!("Close command should not be drained").
C33_BufferedCommands ==
    \A i \in 1..Len(buffer) :
        /\ buffer[i].op_type \in {"Insert", "Update", "Delete"}
        /\ IsSome(buffer[i].key)
        /\ DrainMessage(trader_key, <<>>, buffer[i]).res = "Panic" =>
              \/ ShortHashInsert(calls[buffer[i].id])
              \/ MemberlessDelete(calls[buffer[i].id])

\* A command is buffered while a Close waits behind another command in the
\* channel
C33_Witness ==
    /\ Len(buffer) = 1
    /\ Len(queue) = 2
    /\ queue[2].op_type = "Close"
    /\ engine = "closing"

\* C34: close() may be called more than once: a second call made after the
\* first has returned tolerates the failed Close send and the finished worker
\* handle and returns normally, leaving the store as it was; over any sequence
\* of calls at most one Close reaches the worker.
C34_SecondClose ==
    /\ returned.op = "close" => ~returned.sent /\ returned.result = Unit
    /\ Cardinality({i \in 1..Len(queue) : queue[i].op_type = "Close"}) <= 1

----------------------------------------------------------------------------
(* C35: every key the write worker stores for a domain collection           *)
(* (currencies, instruments, synthetics, accounts, orders, positions), of   *)
(* the form <trader_key>:<collection>:<id>, is matched by the scan pattern  *)
(* the bulk loader of that collection uses, so an entity inserted and       *)
(* flushed is among the keys the corresponding load_* scans.                *)
DomainCollections ==
    {"currencies", "instruments", "synthetics", "accounts", "orders", "positions"}

C35_StoredKeysScanned ==
    \A id \in 1..Len(calls) :
        LET key == calls[id].key
        IN  (/\ calls[id].op = "Insert"
             /\ Delimited(key) /\ key[1] \in DomainCollections
             /\ Qualified(key) \in DOMAIN store) =>
                Qualified(key) \in scan_keys(store, <<key[1]>>)

----------------------------------------------------------------------------
(* Flush specification: RedisCacheDatabase::flushdb and the adapter's flush *)

\* The future flushdb() returns, once awaited: FLUSHDB is sent on the read
\* connection; the store is emptied, or the query fails (the store emptied or
\* not) and the error is logged
flushdb(s) ==
    {[issued |-> TRUE, logged |-> FALSE, store |-> <<>>],
     [issued |-> TRUE, logged |-> TRUE, store |-> <<>>],
     [issued |-> TRUE, logged |-> TRUE, store |-> s]}

\* The same future dropped without being polled: nothing runs
NotAwaited(s) == {[issued |-> FALSE, logged |-> FALSE, store |-> s]}

\* RedisCacheDatabase::flushdb awaited by its caller
FlushDb ==
    /\ engine \in {"open", "closed"}
    /\ returned = NoReturn
    /\ \E f \in flushdb(store) :
          /\ store' = f.store
          /\ returned' = [op |-> "flushdb", issued |-> f.issued, logged |-> f.logged,
                          emptied |-> f.store = <<>>, result |-> Unit]
    /\ UNCHANGED <<trader_key, buffer_interval, engine, queue, pc, buffer, elapsed,
                   calls, submitted, applied, errors>>

\* RedisCacheDatabaseAdapter::flush: `self.database.flushdb();` builds the
\* future and drops it, then Ok(()) is returned
flush(s) == NotAwaited(s)

AdapterFlush ==
    /\ engine \in {"open", "closed"}
    /\ returned = NoReturn
    /\ \E f \in flush(store) :
          /\ store' = f.store
          /\ returned' = [op |-> "flush", issued |-> f.issued, logged |-> f.logged,
                          emptied |-> f.store = <<>>, result |-> Ok(Unit)]
    /\ UNCHANGED <<trader_key, buffer_interval, engine, queue, pc, buffer, elapsed,
                   calls, submitted, applied, errors>>

FlushNext ==
    AdapterFirstCall \/ FlushDb \/ AdapterFlush \/ CloseCall \/ CloseReturn \/ Drop
        \/ Worker \/ Tick

FlushSpec == AdapterInit /\ [][FlushNext]_vars

\* C36: when the adapter's flush() returns Ok, FLUSHDB has been issued to the
\* store on the read connection: the store was emptied, unless FLUSHDB itself
\* failed, and then the error was logged and not raised.
C36_FlushIssued ==
    (returned.op = "flush" /\ returned.result.ok) =>
        /\ returned.issued
        /\ returned.emptied \/ returned.logged

====
